---- MODULE Spec2Model ----
(***************************************************************************)
(* Model of aminer/analysis/MissingMatchPathValueDetector.py:              *)
(* MissingMatchPathValueDetector and MissingMatchPathListValueDetector,    *)
(* with the value lists of aminer/analysis/EventTypeDetector.py and the    *)
(* connection of aminer/events/ZmqEventHandler.py.                         *)
(*                                                                         *)
(* Time is fixed point: every timestamp and interval is a number of ticks, *)
(* TicksPerSecond ticks make one second, so that the truncation int(...)   *)
(* of check_timeouts is not the identity.                                  *)
(* The registry expected_values_dict is a Python dict: a sequence of       *)
(* [value, info] items in insertion order, info the list                   *)
(* [last_seen, interval, suppress_until, target_path] (Python index i is   *)
(* TLA+ index i + 1).                                                      *)
(*                                                                         *)
(* Spec is the detector and its calls; SpecHistory is the same with the    *)
(* history of the reports kept in alerted_at; SpecAllowlist is the         *)
(* detector administered through allowlist_event; SpecPersistence is the   *)
(* detector with do_timer, do_persist and the stored document; SpecRunning *)
(* is one run, without restart, of a detector that takes every value as a  *)
(* key; SpecLearning is one run of a detector with a learning cutoff,      *)
(* SpecInactivity one with an inactivity cutoff, SpecRealert one with a    *)
(* short realert_interval. SpecEventTypes is an EventTypeDetector and its  *)
(* receive_atom, SpecZmq a ZmqEventHandler and its receive_event.          *)
(***************************************************************************)
EXTENDS Integers, Sequences, FiniteSets, TLC

VARIABLES
    params,                   \* the arguments the detector was constructed with
    learn_mode,               \* self.learn_mode
    stop_learning_timestamp,  \* self.stop_learning_timestamp (None or a time)
    expected_values_dict,     \* self.expected_values_dict
    next_check_timestamp,     \* self.next_check_timestamp
    last_seen_timestamp,      \* self.last_seen_timestamp
    next_persist_time,        \* self.next_persist_time (None or a time)
    persistence_file,         \* the document stored under persistence_file_name,
                              \* kept under SpecPersistence
    last_call,                \* the latest call: what it answered and reported
    alerted_at,               \* history, kept under SpecHistory: the keys reported
                              \* missing, each with the record time of its latest
                              \* report
    event_type_detector,      \* an EventTypeDetector: its arguments, its fields
                              \* and what its latest call answered
    zmq_event_handler         \* a ZmqEventHandler: its fields, the sockets it has
                              \* bound and what its latest call did

vars == <<params, learn_mode, stop_learning_timestamp, expected_values_dict,
          next_check_timestamp, last_seen_timestamp, next_persist_time,
          persistence_file, last_call, alerted_at, event_type_detector,
          zmq_event_handler>>

\* the components that no call of a MissingMatchPathValueDetector touches
others == <<event_type_detector, zmq_event_handler>>

\* the MissingMatchPathValueDetector and what is kept of its calls
detector == <<params, learn_mode, stop_learning_timestamp, expected_values_dict,
              next_check_timestamp, last_seen_timestamp, next_persist_time,
              persistence_file, last_call, alerted_at>>

\* the attributes __init__ copies from its arguments and nothing changes later
class_name == params.class_name
combine_values == params.combine_values
default_interval == params.default_interval
realert_interval == params.realert_interval
stop_learning_no_anomaly_time == params.stop_learning_no_anomaly_time

---------------------------------------------------------------------------
(* Bounds of the model *)

\* largest record timestamp and wall clock reading, in ticks
MaxTime == 3
\* ticks per second
TicksPerSecond == 2
\* number of registered anomaly_event_handlers
NumHandlers == 2

None == -1

Times == 0..MaxTime

BaseClass == "MissingMatchPathValueDetector"
ListClass == "MissingMatchPathListValueDetector"

\* self.target_path_list
target_path_list == <<"p1", "p2">>

Min(a, b) == IF a < b THEN a ELSE b
Max(a, b) == IF a > b THEN a ELSE b

\* Python's int() of a number of seconds: truncation towards zero, in ticks
PyInt(x) ==
    IF x >= 0 THEN (x \div TicksPerSecond) * TicksPerSecond
    ELSE -(((-x) \div TicksPerSecond) * TicksPerSecond)

---------------------------------------------------------------------------
(* Text *)

RECURSIVE JoinRepr(_)
\* the items of a list of str as Python prints them: 'a', 'b'
JoinRepr(seq) ==
    IF seq = <<>> THEN ""
    ELSE IF Len(seq) = 1 THEN "'" \o seq[1] \o "'"
    ELSE "'" \o seq[1] \o "', " \o JoinRepr(Tail(seq))

\* str(list of str)
StrOfList(seq) == "[" \o JoinRepr(seq) \o "]"

\* match_object.decode(AminerConfig.ENCODING) for bytes, the object itself for
\* str, then str(...): a match object is [bytes |-> BOOLEAN, data |-> text]
StrOfMatchObject(match_object) == match_object.data

\* bytes.decode raises UnicodeDecodeError for bytes that are no text in
\* AminerConfig.ENCODING: these are the match objects with data "\\xff"
Decodes(match_object) == ~(match_object.bytes /\ match_object.data = "\\xff")

RangeOf(seq) == {seq[i] : i \in 1..Len(seq)}

---------------------------------------------------------------------------
(* Registry (a dict in insertion order) *)

Keys(dict) == {dict[i].value : i \in 1..Len(dict)}

IndexOf(dict, value) == CHOOSE i \in 1..Len(dict) : dict[i].value = value

\* dict.get(value): the info list, or None
DictGet(dict, value) ==
    IF value \in Keys(dict) THEN dict[IndexOf(dict, value)].info ELSE <<>>

\* dict[value] = info: an existing key keeps its place, a new key goes last
DictSet(dict, value, info) ==
    IF value \in Keys(dict)
    THEN [dict EXCEPT ![IndexOf(dict, value)].info = info]
    ELSE Append(dict, [value |-> value, info |-> info])

\* a slip: the oldest item is deleted
DictDelFirst(dict, value) == Tail(dict)

\* del dict[value]
DictDel(dict, value) ==
    LET i == IndexOf(dict, value)
    IN  SubSeq(dict, 1, i - 1) \o SubSeq(dict, i + 1, Len(dict))

---------------------------------------------------------------------------
(* Log atoms *)

\* a match object: text, or bytes holding the encoded text
StrA == [bytes |-> FALSE, data |-> "a"]
BytesB == [bytes |-> TRUE, data |-> "b"]
BytesBad == [bytes |-> TRUE, data |-> "\\xff"]

\* what the parser stores under one path: one match element (a sequence of
\* length 1) or a list of match elements (a longer sequence)
AtomMatches ==
    [p1 |-> {<<StrA>>, <<StrA, StrA>>, <<BytesBad>>}, p2 |-> {<<BytesB>>}]

\* log_atom.parser_match.get_match_dictionary(): paths to matches
MatchDictionaries ==
    UNION {{md \in [S -> UNION {AtomMatches[p] : p \in S}] :
               \A p \in S : md[p] \in AtomMatches[p]} : S \in SUBSET {"p1", "p2"}}

\* log_atom: atom_time is a time, or None in some atoms
LogAtoms ==
    [atom_time : Times, match_dictionary : MatchDictionaries]
    \cup [atom_time : {None},
          match_dictionary : {md \in MatchDictionaries : md \in [{"p1"} -> {<<StrA>>}]}]

\* match_dictionary.get(path) is None
Absent(md, path) == path \notin DOMAIN md

---------------------------------------------------------------------------
(* get_channel_key *)

RECURSIVE CollectValues(_, _)
\* value_list of the loop over target_path_list from index i on, absent paths
\* skipped
CollectValues(md, i) ==
    IF i > Len(target_path_list) THEN <<>>
    ELSE LET target_path == target_path_list[i]
         IN  IF Absent(md, target_path) THEN CollectValues(md, i + 1)
             ELSE [j \in 1..Len(md[target_path]) |->
                       StrOfMatchObject(md[target_path][j])]
                  \o CollectValues(md, i + 1)

RECURSIVE CollectPaths(_, _)
\* path_list of the same loop: the path once per value appended
CollectPaths(md, i) ==
    IF i > Len(target_path_list) THEN <<>>
    ELSE LET target_path == target_path_list[i]
         IN  IF Absent(md, target_path) THEN CollectPaths(md, i + 1)
             ELSE [j \in 1..Len(md[target_path]) |-> target_path]
                  \o CollectPaths(md, i + 1)

RECURSIVE Walk(_, _, _)
\* how the loop of lines 147-164 ends from index i on: "None" at the return of
\* line 151, "UnicodeDecodeError" at a decode of line 160 that raises, "end"
\* after the last path
Walk(md, i, combine) ==
    IF i > Len(target_path_list) THEN "end"
    ELSE IF Absent(md, target_path_list[i])
    THEN (IF combine THEN "None" ELSE Walk(md, i + 1, combine))
    ELSE IF \E j \in 1..Len(md[target_path_list[i]]) :
                ~Decodes(md[target_path_list[i]][j])
    THEN "UnicodeDecodeError"
    ELSE Walk(md, i + 1, combine)

\* lines 165-168
Collected(md, combine) ==
    IF combine
    THEN [kind |-> "strs",
          target_paths |-> <<StrOfList(CollectPaths(md, 1))>>,
          value_list |-> <<StrOfList(CollectValues(md, 1))>>]
    ELSE [kind |-> "lists",
          target_paths |-> CollectPaths(md, 1),
          value_list |-> CollectValues(md, 1)]

\* the end of get_channel_key, the loop having ended as walk says
ChannelKeyAfter(md, combine, walk) ==
    IF walk = "end" THEN Collected(md, combine)
    ELSE [kind |-> walk, target_paths |-> <<>>, value_list |-> <<>>]

\* MissingMatchPathValueDetector.get_channel_key: kind "None" for None, "strs"
\* for a pair of str (held as two lists of one item), "lists" for a pair of
\* lists, "UnicodeDecodeError" for the exception raised
BaseGetChannelKey(md, combine) == ChannelKeyAfter(md, combine, Walk(md, 1, combine))

RECURSIVE ListGetChannelKey(_, _)
\* MissingMatchPathListValueDetector.get_channel_key from index i on: the first
\* path present decides; a list has no attribute match_object
ListGetChannelKey(md, i) ==
    IF i > Len(target_path_list)
    THEN [kind |-> "None", target_paths |-> <<>>, value_list |-> <<>>]
    ELSE LET target_path == target_path_list[i]
         IN  IF Absent(md, target_path) THEN ListGetChannelKey(md, i + 1)
             ELSE IF Len(md[target_path]) > 1
             THEN [kind |-> "AttributeError", target_paths |-> <<>>, value_list |-> <<>>]
             ELSE IF ~Decodes(md[target_path][1])
             THEN [kind |-> "UnicodeDecodeError", target_paths |-> <<>>,
                   value_list |-> <<>>]
             ELSE [kind |-> "strs",
                   target_paths |-> <<target_path>>,
                   value_list |-> <<StrOfMatchObject(md[target_path][1])>>]

\* self.get_channel_key(log_atom)
get_channel_key(cls, combine, md) ==
    IF cls = ListClass THEN ListGetChannelKey(md, 1) ELSE BaseGetChannelKey(md, combine)

\* receive_atom line 107: value is None or (not value[0] and not value[1])
NoChannelKey(key) ==
    \/ key.kind = "None"
    \/ key.kind = "lists" /\ key.target_paths = <<>> /\ key.value_list = <<>>
    \/ key.kind = "strs" /\ key.target_paths[1] = "" /\ key.value_list[1] = ""

---------------------------------------------------------------------------
(* check_timeouts *)

\* a slip: the overdue time and the interval change places
MissingValueSwapped(value, detector_info, overdue_time) ==
    [target_path |-> detector_info[4], value |-> value,
     overdue_time |-> detector_info[2], interval |-> overdue_time]

\* the alert of lines 196-199 and 205-208: the item appended to
\* missing_value_list
MissingValue(value, detector_info, overdue_time) ==
    [target_path |-> detector_info[4], value |-> value,
     overdue_time |-> overdue_time, interval |-> detector_info[2]]

\* a slip: the next alerting time is not set
AlertedNotSuppressed(detector_info, lst, realert) == detector_info

\* detector_info[2] = self.last_seen_timestamp + self.realert_interval
Alerted(detector_info, lst, realert) ==
    [detector_info EXCEPT ![3] = lst + realert]

RECURSIVE ScanLoop(_, _, _, _, _, _, _)
RECURSIVE ScanItem(_, _, _, _, _, _, _, _, _)
RECURSIVE Alerting(_, _, _, _, _, _, _, _, _)

\* the loop of lines 179-208 from item i on: dict, nc (next_check_timestamp)
\* and mvl (missing_value_list) as they are when item i is reached; lst is
\* self.last_seen_timestamp, old_lst its value before this call
ScanLoop(i, dict, nc, mvl, lst, old_lst, realert) ==
    IF i > Len(dict)
    THEN [dict |-> dict, nc |-> nc, mvl |-> mvl, stopped |-> FALSE]
    ELSE ScanItem(i, dict, nc, mvl, lst, old_lst, realert, dict[i].info,
                  PyInt(lst - dict[i].info[1] - dict[i].info[2]))

\* a slip: the loop is left at every entry that is not yet due
ScanItemStopping(i, dict, nc, mvl, lst, old_lst, realert, detector_info, value_overdue_time) ==
    IF detector_info[3] # 0
    THEN IF detector_info[3] - lst > 0
         THEN ScanLoop(i + 1, dict, Min(nc, detector_info[3]), mvl, lst, old_lst, realert)
         ELSE Alerting(i, dict, nc, mvl, lst, old_lst, realert, detector_info,
                       value_overdue_time)
    ELSE IF value_overdue_time < 0
    THEN [dict |-> dict, nc |-> Min(nc, lst - value_overdue_time), mvl |-> mvl,
          stopped |-> TRUE]
    ELSE Alerting(i, dict, nc, mvl, lst, old_lst, realert, detector_info,
                  value_overdue_time)

\* a slip: a suppression that has run out is cleared by the scan
ScanItemClearing(i, dict, nc, mvl, lst, old_lst, realert, detector_info, value_overdue_time) ==
    IF detector_info[3] # 0 /\ detector_info[3] - lst > 0
    THEN ScanLoop(i + 1, dict, Min(nc, detector_info[3]), mvl, lst, old_lst, realert)
    ELSE IF value_overdue_time < 0
    THEN ScanLoop(i + 1, [dict EXCEPT ![i].info[3] = 0],
                  Min(nc, lst - value_overdue_time), mvl, lst, old_lst, realert)
    ELSE Alerting(i, [dict EXCEPT ![i].info[3] = 0], nc, mvl, lst, old_lst, realert,
                  [detector_info EXCEPT ![3] = 0], value_overdue_time)

\* lines 181-193 for item i, value_overdue_time as line 180 computed it
ScanItem(i, dict, nc, mvl, lst, old_lst, realert, detector_info, value_overdue_time) ==
    IF detector_info[3] # 0
    THEN IF detector_info[3] - lst > 0
         THEN \* continue
              ScanLoop(i + 1, dict, Min(nc, detector_info[3]), mvl, lst, old_lst, realert)
         ELSE Alerting(i, dict, nc, mvl, lst, old_lst, realert, detector_info,
                       value_overdue_time)
    ELSE IF value_overdue_time < 0
    THEN IF \/ nc > Min(nc, lst - value_overdue_time)
            \/ Min(nc, lst - value_overdue_time) < detector_info[3]
         THEN \* break
              [dict |-> dict, nc |-> Min(nc, lst - value_overdue_time), mvl |-> mvl,
               stopped |-> TRUE]
         ELSE Alerting(i, dict, Min(nc, lst - value_overdue_time), mvl, lst, old_lst,
                       realert, detector_info, value_overdue_time)
    ELSE Alerting(i, dict, nc, mvl, lst, old_lst, realert, detector_info,
                  value_overdue_time)

\* lines 195-208 for item i, then the items after it
Alerting(i, dict, nc, mvl, lst, old_lst, realert, detector_info, value_overdue_time) ==
    IF value_overdue_time > 0
    THEN ScanLoop(i + 1,
             [dict EXCEPT ![i].info = Alerted(detector_info, lst, realert)],
             nc,
             Append(mvl, MissingValue(dict[i].value, detector_info, value_overdue_time)),
             lst, old_lst, realert)
    ELSE IF lst - detector_info[1] > detector_info[2]
    THEN ScanLoop(i + 1,
             [dict EXCEPT ![i].info = Alerted(detector_info, lst, realert)],
             nc,
             Append(mvl, MissingValue(dict[i].value, detector_info,
                                      lst - old_lst - detector_info[2])),
             lst, old_lst, realert)
    ELSE ScanLoop(i + 1, dict, nc, mvl, lst, old_lst, realert)

\* a slip: one receive_event call per missing value
SendEventsPerValue(mvl) ==
    [n \in 1..(NumHandlers * Len(mvl)) |->
        [listener |-> ((n - 1) % NumHandlers) + 1,
         values |-> <<mvl[((n - 1) \div NumHandlers) + 1]>>]]

\* lines 209-251: the receive_event calls made, in order: one per listener
\* (anomaly_event_handlers are numbered from 1), each given the whole list
SendEvents(mvl) ==
    IF mvl = <<>> THEN <<>>
    ELSE [h \in 1..NumHandlers |-> [listener |-> h, values |-> mvl]]

\* what check_timeouts leaves when the loop of lines 179-208 left scan
Scanned(scan, lst) ==
    [dict |-> scan.dict, nc |-> scan.nc, lst |-> lst, scanned |-> TRUE,
     stopped |-> scan.stopped, mvl |-> scan.mvl, events |-> SendEvents(scan.mvl)]

\* a slip: every scan starts from last_seen_timestamp + realert_interval
CheckAtRecomputing(dict, nc, old_lst, lst, realert) ==
    IF lst > nc
    THEN Scanned(ScanLoop(1, dict, lst + realert, <<>>, lst, old_lst, realert), lst)
    ELSE [dict |-> dict, nc |-> nc, lst |-> lst, scanned |-> FALSE,
          stopped |-> FALSE, mvl |-> <<>>, events |-> <<>>]

\* a slip: the scan also runs at a record time equal to the watermark
CheckAtWatermark(dict, nc, old_lst, lst, realert) ==
    IF lst >= nc
    THEN Scanned(ScanLoop(1, dict, IF nc = 0 THEN lst + realert ELSE nc, <<>>,
                          lst, old_lst, realert),
                 lst)
    ELSE [dict |-> dict, nc |-> nc, lst |-> lst, scanned |-> FALSE,
          stopped |-> FALSE, mvl |-> <<>>, events |-> <<>>]

\* lines 174-252, lst being self.last_seen_timestamp after line 173
CheckAt(dict, nc, old_lst, lst, realert) ==
    IF lst > nc
    THEN Scanned(ScanLoop(1, dict, IF nc = 0 THEN lst + realert ELSE nc, <<>>,
                          lst, old_lst, realert),
                 lst)
    ELSE [dict |-> dict, nc |-> nc, lst |-> lst, scanned |-> FALSE,
          stopped |-> FALSE, mvl |-> <<>>, events |-> <<>>]

\* a slip: last_seen_timestamp is set to the time of the record
CheckTimeoutsFollowing(dict, nc, old_lst, timestamp, realert) ==
    CheckAt(dict, nc, old_lst, timestamp, realert)

\* check_timeouts(timestamp, log_atom) on the state (dict, nc, old_lst)
check_timeouts(dict, nc, old_lst, timestamp, realert) ==
    CheckAt(dict, nc, old_lst, Max(old_lst, timestamp), realert)

---------------------------------------------------------------------------
(* receive_atom *)

RECURSIVE LearnLoop(_, _, _, _, _, _, _, _, _)
\* the loop of lines 116-125 from index i on; st holds dict, nc and slt
\* (stop_learning_timestamp); now is the reading of time.time()
LearnLoop(i, target_paths, value_list, st, learn, timestamp, interval, no_anomaly_time, now) ==
    IF i > Len(target_paths) THEN st
    ELSE IF DictGet(st.dict, value_list[i]) = <<>> /\ learn
    THEN LearnLoop(i + 1, target_paths, value_list,
             [dict |-> DictSet(st.dict, value_list[i],
                               <<timestamp, interval, 0, target_paths[i]>>),
              nc |-> Min(st.nc, timestamp + interval),
              slt |-> IF st.slt # None /\ no_anomaly_time # None
                      THEN now + no_anomaly_time ELSE st.slt],
             learn, timestamp, interval, no_anomaly_time, now)
    ELSE LearnLoop(i + 1, target_paths, value_list, st, learn, timestamp, interval,
                   no_anomaly_time, now)

RECURSIVE UpdateLoop(_, _, _, _, _)
\* the loop of lines 129-139 from index i on
UpdateLoop(i, value_list, dict, nc, timestamp) ==
    IF i > Len(value_list) THEN [dict |-> dict, nc |-> nc]
    ELSE LET detector_info == DictGet(dict, value_list[i])
         IN  IF detector_info = <<>>
             THEN UpdateLoop(i + 1, value_list, dict, nc, timestamp)
             ELSE IF detector_info[3] # 0
             THEN UpdateLoop(i + 1, value_list,
                      DictSet(dict, value_list[i],
                              [detector_info EXCEPT
                                  ![1] = timestamp,
                                  ![3] = IF timestamp >= detector_info[3] THEN 0
                                         ELSE detector_info[3]]),
                      Min(nc, timestamp + detector_info[2]), timestamp)
             ELSE UpdateLoop(i + 1, value_list,
                      DictSet(dict, value_list[i],
                              [detector_info EXCEPT ![1] = timestamp]),
                      nc, timestamp)

\* what a check_timeouts that was not reached leaves to report
NoCheck == [scanned |-> FALSE, stopped |-> FALSE, mvl |-> <<>>, events |-> <<>>]

\* the registry and the watermark at a point of a call
At(dict, nc) == [dict |-> dict, nc |-> nc]

\* the outcome of a call: what it answered (result: the value returned or the
\* exception raised), the fields of the detector after it, and what its
\* check_timeouts did (scanned: the loop ran, stopped: it ended at the break,
\* mvl: missing_value_list, events: the receive_event calls made); learned and
\* checked are the registry and the watermark when check_timeouts was called
\* and when it returned, or as the call left them if it was not reached
Outcome(result, learn, slt, dict, nc, lst, ct) ==
    [result |-> result, learn_mode |-> learn, stop_learning_timestamp |-> slt,
     expected_values_dict |-> dict, next_check_timestamp |-> nc,
     last_seen_timestamp |-> lst, scanned |-> ct.scanned, stopped |-> ct.stopped,
     mvl |-> ct.mvl, events |-> ct.events,
     learned |-> At(dict, nc), checked |-> At(dict, nc)]

\* an outcome that changes nothing but learn_mode
Unhandled(result, learn) ==
    Outcome(result, learn, stop_learning_timestamp, expected_values_dict,
            next_check_timestamp, last_seen_timestamp, NoCheck)

\* line 141, after the loop of lines 129-139 left updated
Returned(learn, slt, ct, updated) ==
    Outcome("True", learn, slt, updated.dict, updated.nc, ct.lst, ct)

\* lines 129-141, after check_timeouts returned ct
AfterCheck(value_list, timestamp, learn, slt, ct) ==
    Returned(learn, slt, ct, UpdateLoop(1, value_list, ct.dict, ct.nc, timestamp))

\* line 127 and what follows, the point of the call of check_timeouts and of
\* its return kept
Checking(value_list, timestamp, learn, learned, ct) ==
    [AfterCheck(value_list, timestamp, learn, learned.slt, ct) EXCEPT
        !.learned = At(learned.dict, learned.nc),
        !.checked = At(ct.dict, ct.nc)]

\* a slip: last_seen is advanced before the timeouts are checked
AfterLearnAdvancedFirst(value_list, timestamp, learn, learned) ==
    LET updated == UpdateLoop(1, value_list, learned.dict, learned.nc, timestamp)
        ct == check_timeouts(updated.dict, updated.nc, last_seen_timestamp, timestamp,
                             realert_interval)
    IN  [Returned(learn, learned.slt, ct, At(ct.dict, ct.nc)) EXCEPT
            !.learned = At(updated.dict, updated.nc),
            !.checked = At(ct.dict, ct.nc)]

\* lines 127-141, after the loop of lines 116-125 left learned
AfterLearn(value_list, timestamp, learn, learned) ==
    Checking(value_list, timestamp, learn, learned,
             check_timeouts(learned.dict, learned.nc, last_seen_timestamp, timestamp,
                            realert_interval))

\* lines 109-141, for a record that has the channel key
Handled(key, timestamp, learn, now) ==
    AfterLearn(key.value_list, timestamp, learn,
               LearnLoop(1, key.target_paths, key.value_list,
                         [dict |-> expected_values_dict, nc |-> next_check_timestamp,
                          slt |-> stop_learning_timestamp],
                         learn, timestamp, default_interval,
                         stop_learning_no_anomaly_time, now))

\* a slip: the timeouts are checked before a record without key is turned away
WithKeyChecked(log_atom, key, learn, now) ==
    IF key.kind \in {"AttributeError", "UnicodeDecodeError"} THEN Unhandled(key.kind, learn)
    ELSE [Handled(key, IF log_atom.atom_time = None THEN now ELSE log_atom.atom_time,
                  learn, now)
             EXCEPT !.result = IF NoChannelKey(key) THEN "False" ELSE "True"]

\* lines 106-141, learn being self.learn_mode after lines 101-104
WithKey(log_atom, key, learn, now) ==
    IF key.kind \in {"AttributeError", "UnicodeDecodeError"} THEN Unhandled(key.kind, learn)
    ELSE IF NoChannelKey(key) THEN Unhandled("False", learn)
    ELSE Handled(key, IF log_atom.atom_time = None THEN now ELSE log_atom.atom_time,
                 learn, now)

\* receive_atom(log_atom) in the current state, time.time() reading now
receive_atom(log_atom, now) ==
    LET compared == learn_mode /\ stop_learning_timestamp # None
    IN  IF compared /\ log_atom.atom_time = None
        THEN \* stop_learning_timestamp < None
             Unhandled("TypeError", learn_mode)
        ELSE WithKey(log_atom,
                     get_channel_key(class_name, combine_values, log_atom.match_dictionary),
                     IF compared /\ stop_learning_timestamp < log_atom.atom_time
                     THEN FALSE ELSE learn_mode,
                     now)

\* the readings of time.time() that can make a difference to the call
Clock(log_atom) ==
    IF \/ log_atom.atom_time = None
       \/ stop_learning_timestamp # None /\ stop_learning_no_anomaly_time # None
    THEN Times ELSE {0}

\* the record of the latest call
Call(op, outcome) ==
    [op |-> op, result |-> outcome.result, scanned |-> outcome.scanned,
     stopped |-> outcome.stopped, mvl |-> outcome.mvl, events |-> outcome.events]

---------------------------------------------------------------------------
(* Administrative overrides *)

\* the values, intervals and paths an administrator names: a channel key and
\* path as the events of the detector show them
AdminValues == IF class_name = BaseClass /\ combine_values THEN {"['a', 'b']"} ELSE {"a"}
AdminIntervals == {3}
AdminPaths == IF class_name = BaseClass /\ combine_values THEN {"['p1', 'p2']"} ELSE {"p1"}

\* a slip: the watermark is left as it is
SetCheckValueKeepingWatermark(value, interval, target_path) ==
    Outcome("None", learn_mode, stop_learning_timestamp,
            DictSet(expected_values_dict, value,
                    <<last_seen_timestamp, interval, 0, target_path>>),
            next_check_timestamp, last_seen_timestamp, NoCheck)

\* set_check_value(value, interval, target_path) in the current state
set_check_value(value, interval, target_path) ==
    Outcome("None", learn_mode, stop_learning_timestamp,
            DictSet(expected_values_dict, value,
                    <<last_seen_timestamp, interval, 0, target_path>>),
            0, last_seen_timestamp, NoCheck)

\* remove_check_value(value) in the current state: del raises KeyError for a
\* key that is not in the dict
remove_check_value(value) ==
    IF value \in Keys(expected_values_dict)
    THEN Outcome("None", learn_mode, stop_learning_timestamp,
                 DictDel(expected_values_dict, value),
                 next_check_timestamp, last_seen_timestamp, NoCheck)
    ELSE Unhandled("KeyError", learn_mode)

\* self.analysis_string % name, line 90
AnalysisString(name) == "Analysis." \o name

\* an allowlisting_data argument is a Python number [type, value], value in
\* seconds; isinstance(allowlisting_data, int) of line 291
IsInt(allowlisting_data) == allowlisting_data.type = "int"

\* a slip: -1 is taken as it is
NewIntervalAsGiven(allowlisting_data) == allowlisting_data.value * TicksPerSecond

\* the interval in ticks that line 296-298 leaves in new_interval
NewInterval(allowlisting_data) ==
    IF allowlisting_data.value = -1 THEN default_interval
    ELSE allowlisting_data.value * TicksPerSecond

\* the f-string of line 306, the interval written in ticks
Updated(event_data, new_interval) ==
    "Updated '" \o event_data[1] \o "' in '" \o event_data[2]
        \o "' to new interval " \o ToString(new_interval) \o "."

\* allowlist_event accepting any number
AllowlistOutcomeAnyNumber(event_type, event_data, allowlisting_data, new_interval) ==
    IF event_type # AnalysisString(class_name)
    THEN Unhandled("Exception", learn_mode)
    ELSE IF new_interval < 0
    THEN [remove_check_value(event_data[1]) EXCEPT
              !.result = IF @ = "None" THEN Updated(event_data, new_interval) ELSE @]
    ELSE [set_check_value(event_data[1], new_interval, event_data[2]) EXCEPT
              !.result = Updated(event_data, new_interval)]

\* lines 288-306, new_interval being what lines 296-298 leave
AllowlistOutcome(event_type, event_data, allowlisting_data, new_interval) ==
    IF event_type # AnalysisString(class_name)
    THEN Unhandled("Exception", learn_mode)
    ELSE IF ~IsInt(allowlisting_data)
    THEN Unhandled("Exception", learn_mode)
    ELSE IF new_interval < 0
    THEN [remove_check_value(event_data[1]) EXCEPT
              !.result = IF @ = "None" THEN Updated(event_data, new_interval) ELSE @]
    ELSE [set_check_value(event_data[1], new_interval, event_data[2]) EXCEPT
              !.result = Updated(event_data, new_interval)]

\* allowlist_event(event_type, event_data, allowlisting_data) in the current
\* state; the result is the string returned or the exception raised
allowlist_event(event_type, event_data, allowlisting_data) ==
    AllowlistOutcome(event_type, event_data, allowlisting_data,
                     NewInterval(allowlisting_data))

\* the arguments of allowlist_event: this detector's event type and another's,
\* a value and its path, and the directives -2, -1, 0, 1 and 1.0
EventTypes == {AnalysisString(class_name), AnalysisString("NewMatchPathValueDetector")}
EventData == AdminValues \X AdminPaths
Directive(n) == [type |-> "int", value |-> n]
AllowlistingData == {Directive(n) : n \in {-2, -1, 0, 1}} \cup {[type |-> "float", value |-> 1]}

\* the directives the calls of AllowlistEvent are made with
CalledWith == AllowlistingData \ {Directive(0)}

\* the keys of a missing_value_list
Reported(mvl) == {mvl[i].value : i \in 1..Len(mvl)}

\* the history after a call: a report of a key replaces the earlier one of that
\* key; replaced marks the keys that set_check_value or remove_check_value
\* were called for since. A report is kept as long as the record time has not
\* reached its time + realert_interval
History(outcome, replaced) ==
    LET kept == {a \in alerted_at : a.value \notin Reported(outcome.mvl)}
        new == {[value |-> v, time |-> outcome.last_seen_timestamp, replaced |-> FALSE] :
                   v \in Reported(outcome.mvl)}
        marked == {[a EXCEPT !.replaced = a.replaced \/ a.value \in replaced] :
                      a \in kept \cup new}
    IN  {a \in marked : outcome.last_seen_timestamp < a.time + realert_interval}

\* the call op with this outcome is made
Apply(op, outcome) ==
    /\ learn_mode' = outcome.learn_mode
    /\ stop_learning_timestamp' = outcome.stop_learning_timestamp
    /\ expected_values_dict' = outcome.expected_values_dict
    /\ next_check_timestamp' = outcome.next_check_timestamp
    /\ last_seen_timestamp' = outcome.last_seen_timestamp
    /\ last_call' = Call(op, outcome)
    /\ UNCHANGED <<params, next_persist_time, persistence_file, others>>

\* a call of receive_atom with one of log_atoms
ReceiveAtomOf(log_atoms) ==
    \E log_atom \in log_atoms : \E now \in Clock(log_atom) :
    \E outcome \in {receive_atom(log_atom, now)} :
        /\ Apply("receive_atom", outcome)
        /\ UNCHANGED alerted_at

\* a call of receive_atom
ReceiveAtom == ReceiveAtomOf(LogAtoms)

\* the atoms whose bytes decode: the others raise at line 160 or 343 and leave
\* every field as it is
DecodableAtoms ==
    {log_atom \in LogAtoms :
        \A target_path \in DOMAIN log_atom.match_dictionary :
            \A j \in 1..Len(log_atom.match_dictionary[target_path]) :
                Decodes(log_atom.match_dictionary[target_path][j])}

\* a call of set_check_value
SetCheckValue ==
    \E value \in AdminValues, interval \in AdminIntervals, target_path \in AdminPaths :
    \E outcome \in {set_check_value(value, interval, target_path)} :
        /\ Apply("set_check_value", outcome)
        /\ UNCHANGED alerted_at

\* a call of remove_check_value
RemoveCheckValue ==
    \E value \in AdminValues :
    \E outcome \in {remove_check_value(value)} :
        /\ Apply("remove_check_value", outcome)
        /\ UNCHANGED alerted_at

\* a call of allowlist_event
AllowlistEvent ==
    \E event_type \in EventTypes, event_data \in EventData :
    \E allowlisting_data \in CalledWith :
    \E outcome \in {allowlist_event(event_type, event_data, allowlisting_data)} :
        /\ Apply("allowlist_event", outcome)
        /\ UNCHANGED alerted_at

\* the same calls, the history of reports kept
ReceiveAtomRecorded ==
    \E log_atom \in DecodableAtoms : \E now \in Clock(log_atom) :
    \E outcome \in {receive_atom(log_atom, now)} :
        /\ Apply("receive_atom", outcome)
        /\ alerted_at' = History(outcome, {})

SetCheckValueRecorded ==
    \E value \in AdminValues, interval \in AdminIntervals, target_path \in AdminPaths :
    \E outcome \in {set_check_value(value, interval, target_path)} :
        /\ Apply("set_check_value", outcome)
        /\ alerted_at' = History(outcome, {value})

RemoveCheckValueRecorded ==
    \E value \in AdminValues :
    \E outcome \in {remove_check_value(value)} :
        /\ Apply("remove_check_value", outcome)
        /\ alerted_at' = History(outcome, IF outcome.result = "None" THEN {value} ELSE {})

---------------------------------------------------------------------------
(* EventTypeDetector: the event types and the values stored for them *)

\* largest number of event types a run makes
MaxEvents == 1
\* largest number of values a run stores for a variable
MaxValues == 3

\* the arguments that differ between the detectors of the model; the others
\* are target_path_list=None, allow_missing_id=False, allowed_id_tuples=[]
\* and save_values=True
EventTypeArguments(ids, least, most) ==
    [id_path_list |-> ids, min_num_vals |-> least, max_num_vals |-> most]

\* what the parser stores under a path: a MatchElement whose match_object and
\* match_string hold a text that is no number, or a list of MatchElements
\* for a path matched more than once
MatchElement(text) == [type |-> "MatchElement", match_string |-> text]
MatchList == [type |-> "list", match_string |-> ""]

EventMatches ==
    [p1 |-> {MatchElement("a"), MatchElement("b"), MatchList},
     p2 |-> {MatchElement("a"), MatchList},
     id |-> {MatchElement("x"), MatchElement("y")}]

\* the match dictionaries over a set of paths
EventDictionaries(paths) ==
    UNION {{md \in [S -> UNION {EventMatches[p] : p \in S}] :
               \A p \in S : md[p] \in EventMatches[p]} : S \in SUBSET paths}

\* list(a set): the items of the set in some order
Orders(S) ==
    {order \in [1..Cardinality(S) -> S] :
        \A i, j \in 1..Cardinality(S) : order[i] = order[j] => i = j}

\* var_key.count('/') and len(var_key) for the paths above and for ''
Slashes(var_key) == 0
LengthOf(var_key) == IF var_key = "" THEN 0 ELSE 2

\* the largest and the smallest of a set of numbers that is not empty
Maximum(S) == CHOOSE n \in S : \A k \in S : k <= n
Minimum(S) == CHOOSE n \in S : \A k \in S : n <= k

\* the state __init__ leaves when there is no persistence file (lines 57-78)
EventTypeConstructed(arguments) ==
    [id_path_list |-> arguments.id_path_list,
     min_num_vals |-> arguments.min_num_vals,
     max_num_vals |-> arguments.max_num_vals,
     found_keys |-> <<>>, variable_key_list |-> <<>>, values |-> <<>>,
     longest_path |-> <<>>, check_variables |-> <<>>, id_path_list_tuples |-> <<>>,
     current_index |-> 0, answered |-> "None"]

\* lines 121-127: the id_tuple of an atom that has every id path
IdTuple(etd, md) ==
    [i \in 1..Len(etd.id_path_list) |-> md[etd.id_path_list[i]].match_string]

\* lines 134-145: the index of the event type of the atom, the last one that
\* fits, or -1
EventIndex(etd, md) ==
    LET found ==
            IF etd.id_path_list # <<>>
            THEN {e \in 1..Len(etd.id_path_list_tuples) :
                     etd.id_path_list_tuples[e] = IdTuple(etd, md)}
            ELSE {e \in 1..Len(etd.found_keys) :
                     /\ etd.longest_path[e] \in DOMAIN md
                     /\ DOMAIN md = etd.found_keys[e]}
    IN  IF found = {} THEN -1 ELSE Maximum(found) - 1

\* lines 154-162: the keys of the atom, in the order list() gave them, without
\* those whose match is no MatchElement
VariableKeys(md, order) ==
    SelectSeq(order, LAMBDA var_key : md[var_key].type = "MatchElement")

RECURSIVE LongestPath(_, _, _, _)
\* lines 174-181 from item i on
LongestPath(keys, i, longest, tmp_int) ==
    IF i > Len(keys) THEN longest
    ELSE IF \/ Slashes(keys[i]) > tmp_int
            \/ Slashes(keys[i]) = tmp_int /\ LengthOf(longest) < LengthOf(keys[i])
    THEN LongestPath(keys, i + 1, keys[i], Slashes(keys[i]))
    ELSE LongestPath(keys, i + 1, longest, tmp_int)

\* lines 148-191: a new event type for the atom
NewEventType(etd, md, order) ==
    LET keys == VariableKeys(md, order)
    IN  [etd EXCEPT
            !.found_keys = Append(@, DOMAIN md),
            !.variable_key_list = Append(@, keys),
            !.values = Append(@, [i \in 1..Len(keys) |-> <<>>]),
            !.check_variables = Append(@, [i \in 1..Len(keys) |-> TRUE]),
            !.longest_path =
                IF etd.id_path_list = <<>>
                THEN Append(@, LongestPath(keys, 1, "", 0)) ELSE @,
            !.id_path_list_tuples =
                IF etd.id_path_list = <<>> THEN @ ELSE Append(@, IdTuple(etd, md))]

\* lines 253-273: the value stored for a match whose text is no number
Stored(match) == match.match_string

RECURSIVE AppendLoop(_, _, _, _, _)
\* the loop of lines 244-273 from var_index on, vals and checks being
\* self.values[current_index] and self.check_variables[current_index]; raised:
\* line 254 read match_object of a list
AppendLoop(var_index, keys, md, vals, checks) ==
    IF var_index > Len(keys)
    THEN [values |-> vals, check_variables |-> checks, raised |-> FALSE]
    ELSE IF ~checks[var_index]
    THEN AppendLoop(var_index + 1, keys, md, vals, checks)
    ELSE IF keys[var_index] \notin DOMAIN md
    THEN AppendLoop(var_index + 1, keys, md,
                    [vals EXCEPT ![var_index] = <<>>],
                    [checks EXCEPT ![var_index] = FALSE])
    ELSE IF md[keys[var_index]].type # "MatchElement"
    THEN [values |-> vals, check_variables |-> checks, raised |-> TRUE]
    ELSE AppendLoop(var_index + 1, keys, md,
                    [vals EXCEPT ![var_index] = Append(@, Stored(md[keys[var_index]]))],
                    checks)

\* seq[-n:]
LastValues(seq, n) ==
    IF n = 0 \/ n >= Len(seq) THEN seq
    ELSE SubSeq(seq, Len(seq) - n + 1, Len(seq))

\* lines 276-282: the lists of an event type after the reduction
Reduced(keys, vals, checks, least, most) ==
    LET checked == {i \in 1..Len(keys) : checks[i]}
    IN  IF Len(keys) > 0 /\ checked # {} /\ Len(vals[Minimum(checked)]) > most
        THEN [i \in 1..Len(keys) |->
                 IF checks[i] THEN LastValues(vals[i], least) ELSE vals[i]]
        ELSE vals

\* lines 192-199 and append_values for the event type of Python index index
Appended(etd, md, index) ==
    LET e == index + 1
        appended == AppendLoop(1, etd.variable_key_list[e], md, etd.values[e],
                               etd.check_variables[e])
    IN  IF appended.raised
        THEN [etd EXCEPT !.current_index = index,
                         !.values[e] = appended.values,
                         !.check_variables[e] = appended.check_variables,
                         !.answered = "AttributeError"]
        ELSE [etd EXCEPT !.current_index = index,
                         !.values[e] = Reduced(etd.variable_key_list[e], appended.values,
                                               appended.check_variables,
                                               etd.min_num_vals, etd.max_num_vals),
                         !.check_variables[e] = appended.check_variables,
                         !.answered = "True"]

\* EventTypeDetector.receive_atom for an atom with the match dictionary md,
\* list() giving the keys of md in this order
event_type_receive_atom(etd, md, order) ==
    IF \E i \in 1..Len(etd.id_path_list) : etd.id_path_list[i] \notin DOMAIN md
    THEN [etd EXCEPT !.answered = "False"]
    ELSE IF EventIndex(etd, md) = -1
    THEN Appended(NewEventType(etd, md, order), md, Len(etd.found_keys))
    ELSE Appended(etd, md, EventIndex(etd, md))

\* the paths of the atoms a detector is given
EventPaths(etd) == IF etd.id_path_list = <<>> THEN {"p1", "p2"} ELSE {"p1", "p2", "id"}

\* the lists of values of a detector
ValueLists(etd) ==
    UNION {{etd.values[e][i] : i \in 1..Len(etd.values[e])} : e \in 1..Len(etd.values)}

\* the calls of receive_atom that can be made: a match dictionary and an order
\* of its keys; those that make a new event type only below MaxEvents, and
\* those that leave a list longer only up to MaxValues
EventRecords ==
    {rec \in UNION {{md} \X Orders(DOMAIN md) :
                       md \in EventDictionaries(EventPaths(event_type_detector))} :
        /\ \/ Len(event_type_detector.found_keys) < MaxEvents
           \/ \E i \in 1..Len(event_type_detector.id_path_list) :
                  event_type_detector.id_path_list[i] \notin DOMAIN rec[1]
           \/ EventIndex(event_type_detector, rec[1]) # -1
        /\ \A list \in ValueLists(event_type_receive_atom(event_type_detector,
                                                           rec[1], rec[2])) :
               Len(list) <= MaxValues}

\* a call of receive_atom of the EventTypeDetector
EventTypeReceiveAtom ==
    \E rec \in EventRecords :
        /\ event_type_detector' = event_type_receive_atom(event_type_detector, rec[1], rec[2])
        /\ UNCHANGED <<detector, zmq_event_handler>>

\* detectors that tell event types by the keys of the atom and by an id path
EventTypeParameters ==
    {EventTypeArguments(<<>>, 1, 2), EventTypeArguments(<<"id">>, 2, 2)}

---------------------------------------------------------------------------
(* ZmqEventHandler: the socket and the events sent on it *)

\* largest number of sockets a run creates
MaxSockets == 6

\* what a call of receive_event did: the value returned or the exception
\* raised, whether a socket was created and whether it was bound, and the
\* frames sent
Did(result, created, bound, sent) ==
    [result |-> result, created |-> created, bound |-> bound, sent |-> sent]

\* __init__ (lines 32-37): topic is a text, "" for a topic that is None or
\* empty; producer and context are None or the number of the socket; sockets
\* counts the sockets created so far
ZmqConstructedWith(topic) ==
    [topic |-> topic, producer |-> None, context |-> None, zmq_imported |-> FALSE,
     sockets |-> 0, did |-> Did("None", FALSE, FALSE, <<>>)]

ZmqConstructed == ZmqConstructedWith("")

\* an event and what the ZeroMQ library answers during its call: source is
\* "other" when the event source has output_event_handlers without this
\* handler, "suppressed" when its name is in suppress_detector_list; text says
\* whether event_data is a str or bytes; bind and send are the outcomes of
\* producer.bind and of the last producer.send_string made
ZmqEvents ==
    [source : {"other", "suppressed", "routed"}, text : BOOLEAN,
     bind : {"bound", "ZMQError"}, send : {"sent", "ZMQError"}]

\* self.producer.disconnect(), line 88: Socket.disconnect(addr) is called
\* without its argument
Disconnect == "TypeError"

\* the frames of lines 78-83
Frames(h) == IF h.topic # "" THEN <<"topic", "event_data">> ELSE <<"event_data">>

\* the frames that were sent when the last send_string raised
FramesBeforeError(h) == SubSeq(Frames(h), 1, Len(Frames(h)) - 1)

\* lines 72-92, h being the handler after lines 60-71
Sending(h, event, created) ==
    IF ~event.text
    THEN [h EXCEPT !.did = Did("False", created, created, <<>>)]
    ELSE IF event.send = "sent"
    THEN [h EXCEPT !.did = Did("True", created, created, Frames(h))]
    ELSE IF Disconnect = "TypeError"
    THEN [h EXCEPT !.did = Did("TypeError", created, created, FramesBeforeError(h))]
    ELSE [h EXCEPT !.producer = None, !.zmq_imported = FALSE,
                   !.did = Did("False", created, created, FramesBeforeError(h))]

\* lines 60-92 for an event that passed the filters: zmq.Context(), socket()
\* and bind() are inside a try that catches ImportError only
Connecting(h, event) ==
    IF h.zmq_imported THEN Sending(h, event, FALSE)
    ELSE IF event.bind = "ZMQError"
    THEN [h EXCEPT !.context = h.sockets + 1, !.producer = h.sockets + 1,
                   !.sockets = h.sockets + 1,
                   !.did = Did("ZMQError", TRUE, FALSE, <<>>)]
    ELSE Sending([h EXCEPT !.context = h.sockets + 1, !.producer = h.sockets + 1,
                           !.sockets = h.sockets + 1, !.zmq_imported = TRUE],
                 event, TRUE)

\* ZmqEventHandler.receive_event
receive_event(h, event) ==
    IF event.source \in {"other", "suppressed"}
    THEN [h EXCEPT !.did = Did("True", FALSE, FALSE, <<>>)]
    ELSE Connecting(h, event)

\* a call of receive_event; one that creates a socket only below MaxSockets
ZmqReceiveEvent ==
    \E event \in ZmqEvents :
        /\ \/ zmq_event_handler.sockets < MaxSockets
           \/ zmq_event_handler.zmq_imported
           \/ event.source # "routed"
        /\ zmq_event_handler' = receive_event(zmq_event_handler, event)
        /\ UNCHANGED <<detector, event_type_detector>>

---------------------------------------------------------------------------
(* Persistence and construction *)

\* PersistenceUtil.store_json: the registry is written as it is
store_json(dict) == dict

\* PersistenceUtil.load_json of what store_json wrote
load_json(document) == document

\* a slip: the path is looked up in target_path_list whatever combine_values is
StaleByMembership(detector_info, combine) ==
    detector_info[4] \notin RangeOf(target_path_list)

\* __init__ line 80-81: the entry is not of the configured target paths
Stale(detector_info, combine) ==
    \/ ~combine /\ detector_info[4] \notin RangeOf(target_path_list)
    \/ combine /\ detector_info[4] # StrOfList(target_path_list)

\* a slip: the interval is reset, the suppression left as it was
NormalisedInterval(detector_info, interval) ==
    IF detector_info[2] # interval
    THEN [detector_info EXCEPT ![2] = interval]
    ELSE detector_info

\* __init__ lines 85-87
Normalised(detector_info, interval) ==
    IF detector_info[2] # interval
    THEN [detector_info EXCEPT ![2] = interval, ![3] = detector_info[1] + interval]
    ELSE detector_info

RECURSIVE LoadPersistence(_, _, _, _)
\* __init__ lines 75-88: the registry built from persistence_data from item i on
LoadPersistence(persistence_data, i, combine, interval) ==
    IF i > Len(persistence_data) THEN <<>>
    ELSE IF Stale(persistence_data[i].info, combine)
    THEN LoadPersistence(persistence_data, i + 1, combine, interval)
    ELSE <<[value |-> persistence_data[i].value,
            info |-> Normalised(persistence_data[i].info, interval)]>>
         \o LoadPersistence(persistence_data, i + 1, combine, interval)

\* AtomHandlerInterface.__init__: the learning cutoff the arguments ask for
InitialStopLearningTimestamp(p, now) ==
    IF p.stop_learning_time # None THEN now + p.stop_learning_time
    ELSE IF p.stop_learning_no_anomaly_time # None
    THEN now + p.stop_learning_no_anomaly_time
    ELSE None

\* constructor arguments: the two detectors, per value and combined, without
\* and with a learning cutoff
Arguments(c, cv, di, ri, lm, slt, nat) ==
    [class_name |-> c, combine_values |-> cv, default_interval |-> di,
     realert_interval |-> ri, learn_mode |-> lm, stop_learning_time |-> slt,
     stop_learning_no_anomaly_time |-> nat]

Parameters ==
    {Arguments(BaseClass, FALSE, 1, 1, TRUE, None, None),
     Arguments(BaseClass, TRUE, 2, 3, TRUE, None, None),
     Arguments(ListClass, TRUE, 1, 2, TRUE, None, None),
     Arguments(ListClass, FALSE, 1, 2, FALSE, None, None)}

\* the state __init__ leaves, given what load_json returned (<<>> for None or {})
Constructed(p, persistence_data, now) ==
    /\ params' = p
    /\ learn_mode' = p.learn_mode
    /\ stop_learning_timestamp' = InitialStopLearningTimestamp(p, now)
    /\ next_check_timestamp' = 0
    /\ last_seen_timestamp' = 0
    /\ expected_values_dict' =
           LoadPersistence(persistence_data, 1, p.combine_values, p.default_interval)

\* the first start, with no persistence file, of a detector whose
\* next_persist_time is scheduled
DetectorStarted(arguments, scheduled) ==
    /\ params \in arguments
    /\ learn_mode = params.learn_mode
    /\ stop_learning_timestamp = InitialStopLearningTimestamp(params, 0)
    /\ next_check_timestamp = 0
    /\ last_seen_timestamp = 0
    /\ expected_values_dict = <<>>
    /\ next_persist_time = scheduled
    /\ persistence_file = <<>>
    /\ last_call = Call("__init__", Unhandled("None", learn_mode))
    /\ alerted_at = {}

\* that start, with an EventTypeDetector and a ZmqEventHandler that are
\* constructed and not called
Started(arguments, scheduled) ==
    /\ DetectorStarted(arguments, scheduled)
    /\ event_type_detector = EventTypeConstructed(EventTypeArguments(<<>>, 1, 2))
    /\ zmq_event_handler = ZmqConstructed

\* the first start of a detector whose timer is not run: next_persist_time as
\* line 58 leaves it
Init == Started(Parameters, None)

\* do_persist at shutdown, then a new detector constructed with the same
\* arguments
Restart ==
    /\ Constructed(params, load_json(store_json(expected_values_dict)), 0)
    /\ last_call' = Call("__init__", Unhandled("None", learn_mode))
    /\ alerted_at' = {}
    /\ UNCHANGED <<next_persist_time, persistence_file, others>>

Next ==
    \/ ReceiveAtom
    \/ SetCheckValue
    \/ RemoveCheckValue
    \/ Restart

Spec == Init /\ [][Next]_vars

\* configurations that take every value of a record as a key of its own: one
\* that learns, with a realert_interval above its default_interval, and the
\* one of Parameters that does not learn
RunningParameters ==
    {Arguments(BaseClass, FALSE, 1, 3, TRUE, None, None)}
    \cup {p \in Parameters : ~p.learn_mode}

\* one run of the detector in those configurations, from its start on
NextRunning ==
    \/ ReceiveAtom
    \/ SetCheckValue
    \/ RemoveCheckValue

SpecRunning == Started(RunningParameters, None) /\ [][NextRunning]_vars

\* the configuration of Parameters that learns every value as a key of its
\* own: its realert_interval is short enough for a suppression to run out
RealertParameters == {p \in Parameters : p.learn_mode /\ ~p.combine_values}

\* one run of the detector in that configuration
SpecRealert == Started(RealertParameters, None) /\ [][NextRunning]_vars

\* the detector with the history of its reports
NextHistory ==
    \/ ReceiveAtomRecorded
    \/ SetCheckValueRecorded
    \/ RemoveCheckValueRecorded
    \/ Restart

SpecHistory == Init /\ [][NextHistory]_vars

\* the detector administered through allowlist_event
NextAllowlist ==
    \/ ReceiveAtomOf(DecodableAtoms)
    \/ AllowlistEvent
    \/ Restart

SpecAllowlist == Init /\ [][NextAllowlist]_vars

---------------------------------------------------------------------------
(* The persistence timer *)

\* aminer_config.config_properties.get(KEY_PERSISTENCE_PERIOD,
\* DEFAULT_PERSISTENCE_PERIOD), in ticks
PersistencePeriod == 2

\* AtomHandlerInterface.__init__: the first persist is scheduled one period
\* after the construction, or not at all
InitialNextPersistTime(now) == {None, now + PersistencePeriod}

\* the outcome of do_timer or do_persist: the value returned, whether
\* store_json was called, and next_persist_time and the document after it
Persistence(delta, persisted, npt, document) ==
    [delta |-> delta, persisted |-> persisted, next_persist_time |-> npt,
     persistence_file |-> document]

\* do_persist() in the current state
do_persist ==
    Persistence(None, TRUE, next_persist_time, store_json(expected_values_dict))

\* a slip: the registry is written at every call of a scheduled timer
DoTimerWritingThrough(trigger_time, now) ==
    IF next_persist_time = None
    THEN Persistence(PersistencePeriod, FALSE, next_persist_time, persistence_file)
    ELSE Persistence(PersistencePeriod, TRUE, now + PersistencePeriod,
                     do_persist.persistence_file)

\* do_timer(trigger_time) in the current state, time.time() of line 278
\* reading now
do_timer(trigger_time, now) ==
    IF next_persist_time = None
    THEN Persistence(PersistencePeriod, FALSE, next_persist_time, persistence_file)
    ELSE IF next_persist_time - trigger_time <= 0
    THEN Persistence(PersistencePeriod, TRUE, now + PersistencePeriod,
                     do_persist.persistence_file)
    ELSE Persistence(next_persist_time - trigger_time, FALSE, next_persist_time,
                     persistence_file)

\* the call op of the timer interface is made: the detector's other fields stay
Persist(op, outcome) ==
    /\ next_persist_time' = outcome.next_persist_time
    /\ persistence_file' = outcome.persistence_file
    /\ last_call' = [Call(op, Unhandled("None", learn_mode)) EXCEPT
                         !.result = ToString(outcome.delta)]
    /\ UNCHANGED <<params, learn_mode, stop_learning_timestamp, expected_values_dict,
                   next_check_timestamp, last_seen_timestamp, alerted_at, others>>

\* a call of do_timer by the host, the wall clock at trigger_time or a tick
\* later at line 278
DoTimer ==
    \E trigger_time \in Times : \E now \in {trigger_time, Min(trigger_time + 1, MaxTime)} :
    \E outcome \in {do_timer(trigger_time, now)} :
        Persist("do_timer", outcome)

\* a call of do_persist
DoPersist == Persist("do_persist", do_persist)

\* the process ends without persisting and a new detector is constructed with
\* the same arguments from the document last stored
Reboot ==
    /\ Constructed(params, load_json(persistence_file), 0)
    /\ next_persist_time' \in InitialNextPersistTime(0)
    /\ last_call' = Call("__init__", Unhandled("None", learn_mode))
    /\ UNCHANGED <<persistence_file, alerted_at, others>>

\* the detectors and records the timer is run with: detectors that learn, and
\* records with a timestamp and one match
TimerParameters == {p \in Parameters : p.learn_mode /\ ~p.combine_values}
TimerAtoms ==
    {log_atom \in LogAtoms :
        /\ log_atom.atom_time # None
        /\ log_atom.match_dictionary \in [{"p1"} -> {<<StrA>>}]}

\* the first start of a detector whose timer is run
InitPersistence ==
    \E scheduled \in InitialNextPersistTime(0) : Started(TimerParameters, scheduled)

NextPersistence ==
    \/ ReceiveAtomOf(TimerAtoms)
    \/ SetCheckValue
    \/ RemoveCheckValue
    \/ DoTimer
    \/ DoPersist
    \/ Reboot

SpecPersistence == InitPersistence /\ [][NextPersistence]_vars

\* a configuration with a learning cutoff: stop_learning_time
LearningParameters == {Arguments(BaseClass, FALSE, 1, 3, TRUE, 2, None)}

\* the atoms with one element of text at a path, or none
PlainAtoms ==
    {log_atom \in DecodableAtoms :
        \A target_path \in DOMAIN log_atom.match_dictionary :
            Len(log_atom.match_dictionary[target_path]) = 1}

\* one run of a detector that stops learning, with the calls of its
\* administrator and of the timer
NextLearning ==
    \/ ReceiveAtomOf(PlainAtoms)
    \/ SetCheckValue
    \/ RemoveCheckValue
    \/ AllowlistEvent
    \/ DoTimer

SpecLearning == Started(LearningParameters, None) /\ [][NextLearning]_vars

\* a configuration with an inactivity cutoff: stop_learning_no_anomaly_time
InactivityParameters == {Arguments(BaseClass, FALSE, 1, 3, TRUE, None, 2)}

\* one run of a detector that stops learning when nothing new was learned for
\* a while, with the calls of its administrator
NextInactivity ==
    \/ ReceiveAtomOf(PlainAtoms)
    \/ SetCheckValue
    \/ RemoveCheckValue

SpecInactivity == Started(InactivityParameters, None) /\ [][NextInactivity]_vars

\* an EventTypeDetector alone, from its construction on
InitEventTypes ==
    /\ DetectorStarted(RealertParameters, None)
    /\ \E arguments \in EventTypeParameters :
           event_type_detector = EventTypeConstructed(arguments)
    /\ zmq_event_handler = ZmqConstructed

NextEventTypes == EventTypeReceiveAtom

SpecEventTypes == InitEventTypes /\ [][NextEventTypes]_vars

\* a ZmqEventHandler alone, without and with a topic
InitZmq ==
    /\ DetectorStarted(RealertParameters, None)
    /\ event_type_detector = EventTypeConstructed(EventTypeArguments(<<>>, 1, 2))
    /\ zmq_event_handler \in {ZmqConstructedWith(""), ZmqConstructedWith("t")}

NextZmq == ZmqReceiveEvent

SpecZmq == InitZmq /\ [][NextZmq]_vars

---------------------------------------------------------------------------
(* What the claims speak of *)

\* the calls of receive_atom that can be made: a log atom and a clock reading
Records == {<<log_atom, now>> \in LogAtoms \X Times : now \in Clock(log_atom)}

\* the channel key of a record
KeyOf(rec) == get_channel_key(class_name, combine_values, rec[1].match_dictionary)

\* the keys a record is an observation of
Observed(rec) == RangeOf(KeyOf(rec).value_list)

\* the record time of a record: log_atom.get_timestamp(), else time.time()
TimestampOf(rec) == IF rec[1].atom_time = None THEN rec[2] ELSE rec[1].atom_time

\* the outcome of receive_atom for a record
Received(rec) == receive_atom(rec[1], rec[2])

\* fields of a registry entry
LastSeen(entry) == entry.info[1]
Interval(entry) == entry.info[2]
SuppressUntil(entry) == entry.info[3]
SourcePath(entry) == entry.info[4]
DueTime(entry) == LastSeen(entry) + Interval(entry)

\* the entries of a registry
Entries(dict) == RangeOf(dict)

\* the entry of a key that is in the registry
EntryOf(dict, value) == dict[IndexOf(dict, value)]

---------------------------------------------------------------------------
(* C1 *)

\* what C1 asks of one call: every entry in the normal state that the record
\* does not observe and whose due time the record's timestamp has reached is
\* in the batch; an entry still inside its suppression window is not
C1Holds(rec, outcome) ==
    outcome.result = "True" =>
        \A entry \in Entries(expected_values_dict) :
            /\ (/\ entry.value \notin Observed(rec)
                /\ SuppressUntil(entry) = 0
                /\ TimestampOf(rec) >= DueTime(entry))
               => entry.value \in Reported(outcome.mvl)
            /\ (/\ SuppressUntil(entry) # 0
                /\ outcome.last_seen_timestamp < SuppressUntil(entry))
               => entry.value \notin Reported(outcome.mvl)

\* C1 (as claimed): no missed overdue channel. In every reachable state, a
\* handled record whose timestamp has reached the due time last_seen + interval
\* of an entry that is in the normal state and that the record does not observe
\* gets that entry into its alert batch, and no entry is reported again before
\* its suppress_until.
C1_NoMissedOverdue ==
    \A rec \in Records : C1Holds(rec, Received(rec))

---------------------------------------------------------------------------
(* C3 *)

\* the watermark is not above the due time of any entry in the normal state nor
\* above the suppress_until of any alerted entry
WatermarkCovers(dict, nc) ==
    \A entry \in Entries(dict) :
        IF SuppressUntil(entry) = 0 THEN nc <= DueTime(entry)
        ELSE nc <= SuppressUntil(entry)

\* C3 (as claimed): monotonic watermark. After every receive_atom call,
\* next_check_timestamp is <= last_seen + interval of every entry in the normal
\* state and <= suppress_until of every alerted entry.
C3_WatermarkBound ==
    last_call.op = "receive_atom" =>
        WatermarkCovers(expected_values_dict, next_check_timestamp)

---------------------------------------------------------------------------
(* C4 *)

\* an entry is outside its suppression window at record time lst
Unsuppressed(entry, lst) == SuppressUntil(entry) = 0 \/ SuppressUntil(entry) <= lst

\* an entry has been silent for longer than its interval at record time lst
Overdue(entry, lst) == lst - LastSeen(entry) > Interval(entry)

\* what C4 asks of one call: if it scans, every entry that is overdue and
\* outside its suppression window at the record time of the scan is in the batch
C4Holds(outcome) ==
    outcome.scanned =>
        \A entry \in Entries(expected_values_dict) :
            (/\ Unsuppressed(entry, outcome.last_seen_timestamp)
             /\ Overdue(entry, outcome.last_seen_timestamp))
            => entry.value \in Reported(outcome.mvl)

\* C4 (as claimed): no anomaly is dropped within a scan. In every reachable
\* state, a receive_atom call that scans reports every entry that is overdue and
\* outside its suppression window, wherever it is in the iteration order and
\* whatever next_check_timestamp was.
C4_ScanReportsAllOverdue ==
    \A rec \in Records : C4Holds(Received(rec))

---------------------------------------------------------------------------
(* C2 *)

\* the call that leads to the next state repeats no report of the history
\* before its time + realert_interval
NoEarlyRealert(history) ==
    \A a \in history :
        a.value \in Reported(last_call'.mvl)
        => last_seen_timestamp' >= a.time + realert_interval

\* C2 (as claimed): re-alert suppression. After a key was reported by a scan at
\* record time T, no later receive_atom call reports the same key unless the
\* record time of its scan is >= T + realert_interval.
C2_NoRealertBeforeDeadline ==
    [][NoEarlyRealert(alerted_at)]_vars

\* C2 (amended): the same, for the keys that neither set_check_value nor
\* remove_check_value was called for since the report.
C2_NoRealertUnlessReplaced ==
    [][NoEarlyRealert({a \in alerted_at : ~a.replaced})]_vars

\* C2 witness: a scan has just passed over an entry that was reported before,
\* is still overdue and still suppressed, without reporting it
C2_Witness ==
    /\ last_call.op = "receive_atom"
    /\ last_call.scanned
    /\ \E a \in alerted_at :
        /\ ~a.replaced
        /\ a.time < last_seen_timestamp
        /\ a.value \in Keys(expected_values_dict)
        /\ a.value \notin Reported(last_call.mvl)
        /\ Overdue(EntryOf(expected_values_dict, a.value), last_seen_timestamp)

---------------------------------------------------------------------------
(* C6 *)

\* do_persist, then __init__ with the same arguments
Reloaded(dict) ==
    LoadPersistence(load_json(store_json(dict)), 1, combine_values, default_interval)

\* C6 (as claimed): idempotent reload. For every reachable registry, do_persist
\* followed by the construction of a detector with the same arguments gives a
\* registry with the same keys and the same four fields for each.
C6_ReloadIdentical ==
    Reloaded(expected_values_dict) = expected_values_dict

---------------------------------------------------------------------------
(* C7 *)

\* a record that lacks a configured target path
MissesTargetPath(rec) ==
    \E i \in 1..Len(target_path_list) : Absent(rec[1].match_dictionary, target_path_list[i])

CombinedMode == class_name = BaseClass /\ combine_values

\* C7: combined mode is all or nothing. In every reachable state of a detector
\* with combine_values, receive_atom for a record that lacks a target path
\* returns False and leaves the registry as it is. (Violated by a record whose
\* first path holds bytes that do not decode: line 160 raises before line 151
\* sees the path that is missing.)
C7_CombinedAllOrNothing ==
    CombinedMode =>
        \A rec \in Records :
            MissesTargetPath(rec) =>
                /\ Received(rec).result = "False"
                /\ Received(rec).expected_values_dict = expected_values_dict

---------------------------------------------------------------------------
(* C8 *)

\* the registry without the item of a key, the others in their order
Without(dict, value) ==
    LET Other(item) == item.value # value
    IN  SelectSeq(dict, Other)

\* what C8 asks of remove_check_value(value)
RemoveHolds(value, outcome) ==
    IF value \in Keys(expected_values_dict)
    THEN /\ outcome.result = "None"
         /\ outcome.expected_values_dict = Without(expected_values_dict, value)
         /\ value \notin Keys(outcome.expected_values_dict)
    ELSE /\ outcome.result = "KeyError"
         /\ outcome.expected_values_dict = expected_values_dict

\* what C8 asks of a scan: every key of the batch is in the registry, so a key
\* that was removed is reported only after it was inserted again
OnlyTrackedReported ==
    last_call.op = "receive_atom"
    => Reported(last_call.mvl) \subseteq Keys(expected_values_dict)

\* C8: remove_check_value. For an absent key the call fails and the registry is
\* unchanged; for a present key the entry is deleted and every other entry is
\* unchanged; after every receive_atom call every key of its batch is in the
\* registry, so a removed key is not reported unless it was inserted again.
C8_RemoveCheckValue ==
    /\ \A value \in AdminValues \cup Keys(expected_values_dict) \cup {"c"} :
           RemoveHolds(value, remove_check_value(value))
    /\ OnlyTrackedReported

\* C8 witness: remove_check_value has just deleted one of several entries
C8_Witness ==
    /\ last_call.op = "remove_check_value"
    /\ last_call.result = "None"
    /\ expected_values_dict # <<>>
    /\ AdminValues \cap Keys(expected_values_dict) = {}

---------------------------------------------------------------------------
(* C9 *)

\* what C9 asks of one call
OneEventPerScan(outcome) ==
    IF outcome.scanned /\ outcome.mvl # <<>>
    THEN /\ \A h \in 1..NumHandlers :
               Cardinality({n \in 1..Len(outcome.events) :
                               outcome.events[n].listener = h}) = 1
         /\ \A n \in 1..Len(outcome.events) : outcome.events[n].values = outcome.mvl
         /\ \A i, j \in 1..Len(outcome.mvl) :
               outcome.mvl[i].value = outcome.mvl[j].value => i = j
    ELSE outcome.events = <<>>

\* C9: one event per scan. Every receive_atom call whose scan found missing
\* values has made exactly one receive_event call per event handler, each
\* carrying all the missing values of the scan, every key at most once; a call
\* without a scan or with an empty batch has made none.
C9_OneEventPerScan ==
    last_call.op = "receive_atom" => OneEventPerScan(last_call)

\* C9 witness: a scan has just reported two keys in one event per handler
C9_Witness ==
    /\ last_call.op = "receive_atom"
    /\ Len(last_call.mvl) = 2
    /\ Len(last_call.events) = NumHandlers

---------------------------------------------------------------------------
(* C10 *)

\* no entry that stays in the registry has a smaller last_seen afterwards
LastSeenGrows(outcome) ==
    \A entry \in Entries(expected_values_dict) :
        entry.value \in Keys(outcome.expected_values_dict)
        => LastSeen(EntryOf(outcome.expected_values_dict, entry.value)) >= LastSeen(entry)

\* C10 (as claimed): last_seen only increases. In every reachable state, no
\* receive_atom call, whatever the timestamp of its record, lowers the last_seen
\* of a registry entry.
C10_LastSeenMonotone ==
    \A rec \in Records : LastSeenGrows(Received(rec))

----------------------------------------------------------------------------
(* C11 *)

\* the registry has exactly one entry for key, it is detector_info, and every
\* other entry of dict is in it as it was
Upserted(outcome, dict, key, detector_info) ==
    /\ Cardinality({i \in 1..Len(outcome.expected_values_dict) :
                       outcome.expected_values_dict[i].value = key}) = 1
    /\ DictGet(outcome.expected_values_dict, key) = detector_info
    /\ \A k \in Keys(dict) \ {key} :
           DictGet(outcome.expected_values_dict, k) = DictGet(dict, k)
    /\ Keys(outcome.expected_values_dict) = Keys(dict) \cup {key}

\* the registry is dict without key
Removed(outcome, dict, key) ==
    /\ Keys(outcome.expected_values_dict) = Keys(dict) \ {key}
    /\ \A k \in Keys(dict) \ {key} :
           DictGet(outcome.expected_values_dict, k) = DictGet(dict, k)

\* what the claim says of allowlist_event(own event type, (key, path), d) for
\* the integers d of directives
AllowlistHolds(event_data, d, removable) ==
    LET outcome == allowlist_event(AnalysisString(class_name), event_data, Directive(d))
        interval == IF d = -1 THEN default_interval ELSE d * TicksPerSecond
    IN  /\ d >= -1 =>
               /\ Upserted(outcome, expected_values_dict, event_data[1],
                           <<last_seen_timestamp, interval, 0, event_data[2]>>)
               /\ outcome.result = Updated(event_data, interval)
        /\ (d < -1 /\ removable) =>
               /\ Removed(outcome, expected_values_dict, event_data[1])
               /\ event_data[1] \notin Keys(outcome.expected_values_dict)
               /\ outcome.result = Updated(event_data, interval)

\* C11 as stated: in every reachable state, allowlist_event with this
\* detector's event type, event data (key, path) and an integer directive d
\* upserts the key with default_interval for d = -1, upserts it with interval d
\* for d >= 0, removes it for d < -1, and returns the confirmation string
C11_AllowlistEvent ==
    \A event_data \in EventData : \A d \in {-2, -1, 0, 1} :
        AllowlistHolds(event_data, d, TRUE)

\* C11 for the keys that are there to remove: the same, the directives d < -1
\* taken for the keys of the registry only; for a key that is not in the
\* registry such a call raises KeyError and changes nothing
C11_AllowlistEventTracked ==
    \A event_data \in EventData : \A d \in {-2, -1, 0, 1} :
        /\ AllowlistHolds(event_data, d, event_data[1] \in Keys(expected_values_dict))
        /\ (d < -1 /\ event_data[1] \notin Keys(expected_values_dict)) =>
               LET outcome == allowlist_event(AnalysisString(class_name), event_data,
                                              Directive(d))
               IN  /\ outcome.result = "KeyError"
                   /\ outcome.expected_values_dict = expected_values_dict
                   /\ outcome.next_check_timestamp = next_check_timestamp

\* C11 witness: allowlist_event has reset a key to default_interval while
\* another key is tracked
C11_Witness ==
    /\ last_call.op = "allowlist_event"
    /\ \E event_data \in EventData :
           /\ last_call.result = Updated(event_data, default_interval)
           /\ Keys(expected_values_dict) \ {event_data[1]} # {}

----------------------------------------------------------------------------
(* C12 *)

\* C12: in every reachable state, allowlist_event with an event type that is
\* not this detector's, or with a directive that is no integer, raises an
\* exception and leaves the registry, next_check_timestamp, learn_mode and
\* stop_learning_timestamp as they are
C12_AllowlistRejects ==
    \A event_type \in EventTypes, event_data \in EventData :
    \A allowlisting_data \in AllowlistingData :
        (event_type # AnalysisString(class_name) \/ allowlisting_data.type # "int") =>
            LET outcome == allowlist_event(event_type, event_data, allowlisting_data)
            IN  /\ outcome.result = "Exception"
                /\ outcome.expected_values_dict = expected_values_dict
                /\ outcome.next_check_timestamp = next_check_timestamp
                /\ outcome.learn_mode = learn_mode
                /\ outcome.stop_learning_timestamp = stop_learning_timestamp

\* C12 witness: allowlist_event has raised its exception in a state with a
\* registry that is not empty and a watermark that is set
C12_Witness ==
    /\ last_call.op = "allowlist_event"
    /\ last_call.result = "Exception"
    /\ expected_values_dict # <<>>
    /\ next_check_timestamp # 0

----------------------------------------------------------------------------
(* C13 *)

\* the record holds bytes that do not decode
Undecodable(rec) ==
    \E target_path \in DOMAIN rec[1].match_dictionary :
        \E j \in 1..Len(rec[1].match_dictionary[target_path]) :
            ~Decodes(rec[1].match_dictionary[target_path][j])

\* C13: decoding failures never reach the caller. In every reachable state,
\* receive_atom for a record with a byte-valued match that does not decode
\* returns True or False and raises nothing.
C13_DecodingNeverRaises ==
    \A rec \in Records :
        Undecodable(rec) => Received(rec).result \in {"True", "False"}

----------------------------------------------------------------------------
(* C14 *)

PerValueMode == class_name = BaseClass /\ ~combine_values

\* the target paths a record has a match for
PresentPaths(rec) ==
    {target_path \in RangeOf(target_path_list) :
        ~Absent(rec[1].match_dictionary, target_path)}

\* the values found under the present paths, as text
ValuesFound(rec) ==
    {StrOfMatchObject(rec[1].match_dictionary[target_path][j]) :
        <<target_path, j>> \in
            {<<p, k>> \in PresentPaths(rec) \X (1..2) :
                k <= Len(rec[1].match_dictionary[p])}}

\* what the claim says of receive_atom for rec, its outcome given
SparseHolds(rec, outcome) ==
    /\ (PresentPaths(rec) # {} /\ PresentPaths(rec) # RangeOf(target_path_list)) =>
           /\ outcome.result = "True"
           /\ \A value \in ValuesFound(rec) :
                  /\ Cardinality({i \in 1..Len(outcome.expected_values_dict) :
                                     outcome.expected_values_dict[i].value = value}) = 1
                  /\ DictGet(outcome.expected_values_dict, value)[1] = TimestampOf(rec)
    /\ PresentPaths(rec) = {} =>
           /\ outcome.result = "False"
           /\ outcome.expected_values_dict = expected_values_dict

\* C14: per-value mode takes sparse records. In every reachable state of a
\* detector without combine_values, receive_atom for a record with some but not
\* all target paths returns True and tracks one key per value found under the
\* present paths, and for a record with no target path it returns False and
\* leaves the registry as it is.
C14_PerValueSparse ==
    PerValueMode => \A rec \in Records : SparseHolds(rec, Received(rec))

----------------------------------------------------------------------------
(* C15 *)

ListMode == class_name = ListClass

\* the first of the target paths, in their order, that the record has a match for
FirstPresent(rec) ==
    target_path_list[CHOOSE i \in 1..Len(target_path_list) :
        /\ target_path_list[i] \in PresentPaths(rec)
        /\ \A j \in 1..(i - 1) : target_path_list[j] \notin PresentPaths(rec)]

\* what the claim says of get_channel_key and receive_atom for rec
FirstPathHolds(rec, key) ==
    /\ PresentPaths(rec) # {} =>
           /\ key.kind = "strs"
           /\ key.target_paths = <<FirstPresent(rec)>>
           /\ \E j \in 1..Len(rec[1].match_dictionary[FirstPresent(rec)]) :
                  key.value_list =
                      <<StrOfMatchObject(rec[1].match_dictionary[FirstPresent(rec)][j])>>
    /\ PresentPaths(rec) = {} =>
           /\ key.kind = "None"
           /\ Received(rec).result = "False"
           /\ Received(rec).expected_values_dict = expected_values_dict

\* C15: key extraction of the list variant. In every reachable state of a
\* MissingMatchPathListValueDetector and for every record, get_channel_key
\* returns the (path, value) pair of the first target path the record has a
\* match for, whatever the later paths hold; for a record with no target path
\* it returns None, receive_atom returns False and the registry stays as it is.
C15_ListFirstPath ==
    ListMode => \A rec \in Records : FirstPathHolds(rec, KeyOf(rec))

----------------------------------------------------------------------------
(* C16 *)

\* C16: set_check_value upserts. In every reachable state, after
\* set_check_value(K, i, p) the registry has exactly one entry for K, it is
\* [last_seen_timestamp, i, 0, p], every other entry is as it was, and
\* next_check_timestamp is 0.
C16_SetCheckValue ==
    \A value \in AdminValues, interval \in AdminIntervals, target_path \in AdminPaths :
        LET outcome == set_check_value(value, interval, target_path)
        IN  /\ Upserted(outcome, expected_values_dict, value,
                        <<last_seen_timestamp, interval, 0, target_path>>)
            /\ outcome.next_check_timestamp = 0
            /\ outcome.last_seen_timestamp = last_seen_timestamp

\* C16 witness: set_check_value has replaced or added an entry beside another
\* one, after records have moved the record time on
C16_Witness ==
    /\ last_call.op = "set_check_value"
    /\ Len(expected_values_dict) >= 2
    /\ last_seen_timestamp > 0
    /\ next_check_timestamp = 0
    /\ \E value \in AdminValues, interval \in AdminIntervals, target_path \in AdminPaths :
           DictGet(expected_values_dict, value) =
               <<last_seen_timestamp, interval, 0, target_path>>

----------------------------------------------------------------------------
(* C17 *)

\* an entry persisted by a detector that had another target path
ForeignEntry == [value |-> "c", info |-> <<0, default_interval, 0, "p3">>]

\* persisted documents: the registry as it is, and the registry with an entry
\* that an earlier configuration left in the file
Documents == {expected_values_dict, Append(expected_values_dict, ForeignEntry)}

\* the registry __init__ builds from a document
Loaded(persistence_data) ==
    LoadPersistence(persistence_data, 1, combine_values, default_interval)

\* the source_path matches the configuration
MatchesConfiguration(source_path) ==
    IF combine_values
    THEN source_path = StrOfList(target_path_list)
    ELSE \E i \in 1..Len(target_path_list) : source_path = target_path_list[i]

\* C17: reload filtering. For every reachable registry taken as the persisted
\* document, with or without a foreign entry, the registry after construction
\* holds only entries whose source_path matches the configuration (a member of
\* target_path_list without combine_values, equal to str(target_path_list)
\* with it), and it holds every entry of the document whose source_path matches.
C17_ReloadFilter ==
    \A persistence_data \in Documents :
        /\ \A i \in 1..Len(Loaded(persistence_data)) :
               MatchesConfiguration(SourcePath(Loaded(persistence_data)[i]))
        /\ \A i \in 1..Len(persistence_data) :
               MatchesConfiguration(SourcePath(persistence_data[i])) =>
                   persistence_data[i].value \in Keys(Loaded(persistence_data))

\* C17 witness: a detector constructed from a document has loaded an entry, and
\* its registry with the foreign entry is a document whose reload drops one
\* entry  and keeps another
C17_Witness ==
    /\ last_call.op = "__init__"
    /\ expected_values_dict # <<>>
    /\ Len(Loaded(Append(expected_values_dict, ForeignEntry))) = Len(expected_values_dict)

----------------------------------------------------------------------------
(* C18 *)

\* what the claim says of the entry loaded for the item persisted of a document
NormalisedHolds(persisted, detector_info) ==
    /\ detector_info[2] = default_interval
    /\ persisted.info[2] # default_interval =>
           /\ detector_info[3] = persisted.info[1] + default_interval
           /\ detector_info[1] = persisted.info[1]
           /\ detector_info[4] = persisted.info[4]
    /\ persisted.info[2] = default_interval => detector_info = persisted.info

\* C18: reload interval normalisation. For every reachable registry taken as
\* the persisted document, every entry loaded has interval = default_interval;
\* one persisted with another interval has suppress_until = last_seen +
\* default_interval, and one persisted with default_interval is loaded with its
\* four fields as they were.
C18_ReloadNormalises ==
    \A persistence_data \in Documents :
        \A i \in 1..Len(persistence_data) :
            persistence_data[i].value \in Keys(Loaded(persistence_data)) =>
                NormalisedHolds(persistence_data[i],
                                DictGet(Loaded(persistence_data), persistence_data[i].value))

\* C18 witness: a detector constructed from a document holds an entry whose
\* interval was reset (suppress_until = last_seen + default_interval, not 0)
\* beside one that was loaded as it was
C18_Witness ==
    /\ last_call.op = "__init__"
    /\ \E i, j \in 1..Len(expected_values_dict) :
           /\ SuppressUntil(expected_values_dict[i]) =
                  LastSeen(expected_values_dict[i]) + default_interval
           /\ SuppressUntil(expected_values_dict[j]) = 0

----------------------------------------------------------------------------
(* C20 *)

\* the overdue value of an entry at record time lst
OverdueValue(entry, lst) == lst - LastSeen(entry) - Interval(entry)

\* what the claim says of one call whose scan looked at every entry: an entry
\* outside its suppression window with an overdue value of at least least is in
\* the batch, with suppress_until = last_seen_timestamp + realert_interval
ThresholdHolds(outcome, least) ==
    (outcome.scanned /\ ~outcome.stopped) =>
        \A entry \in Entries(expected_values_dict) :
            (/\ Unsuppressed(entry, outcome.last_seen_timestamp)
             /\ OverdueValue(entry, outcome.last_seen_timestamp) >= least)
            => /\ entry.value \in Reported(outcome.mvl)
               /\ DictGet(outcome.expected_values_dict, entry.value)[3] =
                      outcome.last_seen_timestamp + realert_interval
               /\ DictGet(outcome.expected_values_dict, entry.value)[3] >=
                      outcome.last_seen_timestamp

\* C20: alert threshold. In every reachable state, a receive_atom call whose
\* scan evaluates an entry that is outside its suppression window and has an
\* overdue value last_seen_timestamp - last_seen - interval >= 0, exactly 0
\* included, puts the entry into the batch and sets its suppress_until to
\* last_seen_timestamp + realert_interval.
C20_AlertThreshold ==
    \A rec \in Records : ThresholdHolds(Received(rec), 0)

----------------------------------------------------------------------------
(* C19 *)

\* what the claim says of do_timer(trigger_time) in one state: it persists
\* exactly when next_persist_time is set and has come, then schedules the next
\* persist and returns the period; otherwise it writes nothing and returns the
\* time that remains, or the period when nothing is scheduled
TimerHolds ==
    \A trigger_time \in Times : \A now \in {trigger_time, Min(trigger_time + 1, MaxTime)} :
        LET outcome == do_timer(trigger_time, now)
        IN  IF next_persist_time # None /\ next_persist_time <= trigger_time
            THEN /\ outcome.persisted
                 /\ outcome.persistence_file = expected_values_dict
                 /\ outcome.next_persist_time = now + PersistencePeriod
                 /\ outcome.delta = PersistencePeriod
            ELSE /\ ~outcome.persisted
                 /\ outcome.persistence_file = persistence_file
                 /\ outcome.next_persist_time = next_persist_time
                 /\ outcome.delta = IF next_persist_time = None THEN PersistencePeriod
                                    ELSE next_persist_time - trigger_time

\* what the claim says of one step: the document changes in do_persist only,
\* called as such or by do_timer; receive_atom, set_check_value and
\* remove_check_value leave it; do_timer and do_persist leave the registry and
\* the watermark
WriteBackStep ==
    /\ persistence_file' # persistence_file => last_call'.op \in {"do_persist", "do_timer"}
    /\ last_call'.op \in {"receive_atom", "set_check_value", "remove_check_value"}
           => persistence_file' = persistence_file
    /\ last_call'.op \in {"do_persist", "do_timer"}
           => UNCHANGED <<expected_values_dict, next_check_timestamp>>

\* C19: write-back persistence. The persisted document changes only inside
\* do_persist; do_timer(now) calls do_persist exactly when next_persist_time is
\* set and <= now, then schedules the next persist and returns the persistence
\* period, and otherwise writes nothing and returns the remaining time, or the
\* period when next_persist_time is None; receive_atom, set_check_value and
\* remove_check_value never write the document, and do_timer and do_persist
\* never change the registry or next_check_timestamp.
C19_WriteBack == []TimerHolds /\ [][WriteBackStep]_vars

\* C19 witness: do_timer has written a registry that is not empty, replacing a
\* document, and scheduled the next persist; the registry was changed before
\* without the document following
C19_Witness ==
    /\ last_call.op = "do_timer"
    /\ last_call.result = ToString(PersistencePeriod)
    /\ next_persist_time # None
    /\ persistence_file = expected_values_dict
    /\ expected_values_dict # <<>>
    /\ next_check_timestamp # 0

----------------------------------------------------------------------------
(* C21 *)

\* the observed keys of a record that are in a registry
Matched(rec, dict) == Observed(rec) \cap Keys(dict)

\* what the claim says of one call
AdvancedFirstHolds(rec, outcome) ==
    outcome.result = "True" =>
        \A value \in Matched(rec, outcome.learned.dict) :
            DictGet(outcome.learned.dict, value)[1] = TimestampOf(rec)

\* C21 (as claimed): in every reachable state and for every handled record,
\* when the timeout evaluation of the call runs, last_seen of every key of the
\* record that is in the registry is already the record time t.
C21_AdvancedBeforeScan ==
    \A rec \in Records : AdvancedFirstHolds(rec, Received(rec))

\* what holds of one handled call instead: the timeout evaluation sees the
\* last_seen a registered key of the record had before the call, an item of the
\* batch for such a key carries an overdue value computed from it (or the
\* value of lines 203-205), and last_seen is the record time when the call
\* returns
ScanFirstHolds(rec, outcome) ==
    outcome.result # "True" \/
    /\ \A value \in Matched(rec, expected_values_dict) :
        /\ DictGet(outcome.learned.dict, value) = DictGet(expected_values_dict, value)
        /\ \A item \in RangeOf(outcome.mvl) :
            item.value = value =>
                item.overdue_time \in
                    {PyInt(OverdueValue(EntryOf(expected_values_dict, value),
                                        outcome.last_seen_timestamp)),
                     outcome.last_seen_timestamp - last_seen_timestamp - item.interval}
    /\ \A value \in Matched(rec, outcome.expected_values_dict) :
        DictGet(outcome.expected_values_dict, value)[1] = TimestampOf(rec)

\* C21 (amended): in every reachable state and for every handled record at
\* record time t, the timeout evaluation of the call runs before last_seen of
\* the record's keys is advanced: it computes their overdue values from the
\* last_seen they had before the call, and last_seen of every key of the record
\* that is in the registry is t when the call returns.
C21_ScanBeforeAdvance ==
    [](\A rec \in Records : ScanFirstHolds(rec, Received(rec)))

\* a receive_atom call has reported a key and advanced its last_seen to the
\* record time
C21_Witness ==
    /\ last_call.op = "receive_atom"
    /\ \E entry \in Entries(expected_values_dict) :
        /\ entry.value \in Reported(last_call.mvl)
        /\ LastSeen(entry) = last_seen_timestamp
        /\ LastSeen(entry) > 0
        /\ SuppressUntil(entry) = last_seen_timestamp + realert_interval

----------------------------------------------------------------------------
(* C22 *)

\* what the claim says of one call: an entry in the normal state whose key the
\* record carries, and that has been silent for longer than its interval at
\* the record time, is in the batch of the call
ReappearanceHolds(rec, outcome) ==
    outcome.result = "True" =>
        \A entry \in Entries(expected_values_dict) :
            (/\ entry.value \in Observed(rec)
             /\ SuppressUntil(entry) = 0
             /\ TimestampOf(rec) - LastSeen(entry) > Interval(entry))
            => entry.value \in Reported(outcome.mvl)

\* C22 (as claimed): a gap is reported when the key reappears. In every
\* reachable state, a handled record at time t that carries the key of an entry
\* in the normal state with t - last_seen > interval has that key in the alert
\* batch of its own receive_atom call, whether or not another record has
\* scanned since the key was last seen.
C22_GapReported ==
    \A rec \in Records : ReappearanceHolds(rec, Received(rec))

----------------------------------------------------------------------------
(* C23 *)

\* the candidates a scan at record time lst finds: the due time of every entry
\* in the normal state that is not yet due, the suppress_until of every entry
\* still inside its suppression window
Candidates(dict, lst) ==
    {DueTime(entry) : entry \in {e \in Entries(dict) :
                                    SuppressUntil(e) = 0 /\ DueTime(e) > lst}}
    \cup {SuppressUntil(entry) : entry \in {e \in Entries(dict) :
                                               SuppressUntil(e) # 0
                                               /\ lst < SuppressUntil(e)}}

\* the least of a set of times that is not empty
Least(times) == CHOOSE t \in times : \A u \in times : t <= u

\* what the claim says of one call that scans: check_timeouts leaves the
\* watermark at the least candidate, or at last_seen_timestamp +
\* realert_interval when there is none, and above the record time
RecomputedHolds(rec, outcome) ==
    outcome.scanned =>
        LET found == Candidates(outcome.learned.dict, outcome.last_seen_timestamp)
        IN  /\ outcome.checked.nc =
                   IF found = {} THEN outcome.last_seen_timestamp + realert_interval
                   ELSE Least(found)
            /\ outcome.checked.nc > TimestampOf(rec)

\* C23 (as claimed): the watermark is recomputed by every scan. In every
\* reachable state, a receive_atom call that scans leaves check_timeouts with
\* next_check_timestamp equal to the least candidate the scan found (last_seen +
\* interval of every entry in the normal state that is not yet due,
\* suppress_until of every entry still suppressed), or to last_seen_timestamp +
\* realert_interval when there is none, and greater than the record time.
C23_WatermarkRecomputed ==
    \A rec \in Records : RecomputedHolds(rec, Received(rec))

----------------------------------------------------------------------------
(* C24 *)

\* what the claim says of one call whose scan looked at every entry, about an
\* entry that had suppress_until # 0 when check_timeouts was called
SuppressedHolds(outcome, entry) ==
    LET lst == outcome.last_seen_timestamp
        after == DictGet(outcome.checked.dict, entry.value)
    IN  IF lst < SuppressUntil(entry)
        THEN /\ entry.value \notin Reported(outcome.mvl)
             /\ after = entry.info
             /\ outcome.checked.nc <= SuppressUntil(entry)
        ELSE IF Overdue(entry, lst)
        THEN entry.value \in Reported(outcome.mvl)
        ELSE /\ entry.value \notin Reported(outcome.mvl)
             /\ after[3] = 0
             /\ outcome.checked.nc <= DueTime(entry)

\* C24 (as claimed): suppressed entries in a scan. In every reachable state, a
\* receive_atom call whose scan meets an entry with suppress_until # 0 skips it
\* when last_seen_timestamp < suppress_until (no alert, fields unchanged,
\* suppress_until folded into the watermark); when last_seen_timestamp >=
\* suppress_until it alerts the entry if it is overdue, and otherwise clears
\* suppress_until to 0 and folds the due time into the watermark.
C24_SuppressedInScan ==
    \A rec \in Records :
        (Received(rec).scanned /\ ~Received(rec).stopped) =>
            \A entry \in Entries(Received(rec).learned.dict) :
                SuppressUntil(entry) # 0 => SuppressedHolds(Received(rec), entry)

----------------------------------------------------------------------------
(* C25 *)

\* what the claim says of one handled call: if the record time, once
\* last_seen_timestamp is updated, is not above the watermark check_timeouts is
\* called with, then no scan runs, nothing is reported, no event is sent, and
\* check_timeouts returns with the registry and the watermark it was called with
FastPathHolds(outcome) ==
    (/\ outcome.result = "True"
     /\ outcome.last_seen_timestamp <= outcome.learned.nc)
    => /\ ~outcome.scanned
       /\ outcome.mvl = <<>>
       /\ outcome.events = <<>>
       /\ outcome.checked = outcome.learned

\* C25: the fast path changes nothing. In every reachable state and for every
\* handled record, when last_seen_timestamp, updated by the record, is <=
\* next_check_timestamp, the call runs no scan: it sends no event, sets no
\* suppress_until by an alert, and its timeout check leaves
\* next_check_timestamp as it was.
C25_FastPath ==
    [](\A rec \in Records : FastPathHolds(Received(rec)))

\* a handled call has taken the fast path with a registry that is not empty,
\* at a record time equal to the watermark
C25_Witness ==
    /\ last_call.op = "receive_atom"
    /\ last_call.result = "True"
    /\ ~last_call.scanned
    /\ expected_values_dict # <<>>
    /\ last_seen_timestamp = next_check_timestamp
    /\ last_seen_timestamp > 0

----------------------------------------------------------------------------
(* C26 *)

\* what the claim says of one handled record with a timestamp above 0 that is
\* the first one after set_check_value: its call scans, and every entry that is
\* overdue and outside its suppression window is in the batch
RescanHolds(rec, outcome) ==
    (outcome.result = "True" /\ TimestampOf(rec) > 0) =>
        /\ outcome.scanned
        /\ \A entry \in Entries(outcome.learned.dict) :
            (/\ Unsuppressed(entry, outcome.last_seen_timestamp)
             /\ Overdue(entry, outcome.last_seen_timestamp))
            => entry.value \in Reported(outcome.mvl)

\* C26 (as claimed): a full re-scan follows an override. In every reachable
\* state that a set_check_value call has just left, the next handled record
\* with a timestamp above 0 triggers a scan, and that scan evaluates every
\* entry of the registry: every entry that is overdue and not suppressed is
\* reported by that record.
C26_RescanAfterOverride ==
    last_call.op = "set_check_value" =>
        \A rec \in Records : RescanHolds(rec, Received(rec))

----------------------------------------------------------------------------
(* C27 *)

\* an item of a batch names an entry: its source path, its key, its interval
Names(item, entry) ==
    /\ item.value = entry.value
    /\ item.target_path = SourcePath(entry)
    /\ item.interval = Interval(entry)

\* what the claim says of one call: every item of the batch names an entry of
\* the registry the scan ran over and carries its overdue value at the record
\* time of the scan, which is above 0
PayloadHolds(outcome) ==
    \A item \in RangeOf(outcome.mvl) :
        \E entry \in Entries(outcome.learned.dict) :
            /\ Names(item, entry)
            /\ item.overdue_time = OverdueValue(entry, outcome.last_seen_timestamp)
            /\ item.overdue_time > 0

\* C27 (as claimed): the payload of an alert. In every reachable state and for
\* every record, every item of the alert batch carries the source path, the
\* key and the interval of an entry, and an overdue value equal to
\* last_seen_timestamp - last_seen - interval as computed at scan time, which
\* is above 0.
C27_Payload ==
    \A rec \in Records : PayloadHolds(Received(rec))

\* a number of ticks is a whole number of seconds
Whole(x) == x % TicksPerSecond = 0

\* what holds of one call instead: the overdue value of an item is int() of
\* last_seen_timestamp - last_seen - interval and above 0, which is that
\* difference itself when it is a whole number of seconds; or, the difference
\* being above 0 and below one second, it is last_seen_timestamp minus the
\* last_seen_timestamp before the call minus the interval
TruncatedPayloadHolds(outcome) ==
    \A item \in RangeOf(outcome.mvl) :
        \E entry \in Entries(outcome.learned.dict) :
            LET value_overdue_time ==
                    OverdueValue(entry, outcome.last_seen_timestamp)
            IN  /\ Names(item, entry)
                /\ value_overdue_time > 0
                /\ IF PyInt(value_overdue_time) > 0
                   THEN /\ item.overdue_time = PyInt(value_overdue_time)
                        /\ item.overdue_time > 0
                        /\ Whole(value_overdue_time) =>
                               item.overdue_time = value_overdue_time
                   ELSE item.overdue_time =
                            outcome.last_seen_timestamp - last_seen_timestamp
                            - Interval(entry)

\* C27 (amended): in every reachable state and for every record, every item of
\* the alert batch carries the source path, the key and the interval of an
\* entry whose last_seen_timestamp - last_seen - interval is above 0 at scan
\* time, and as overdue value either the whole seconds of that difference,
\* above 0 (the difference itself when timestamps and intervals are whole
\* seconds), or, when the difference is below one second, last_seen_timestamp
\* minus the previous last_seen_timestamp minus the interval.
C27_TruncatedPayload ==
    [](\A rec \in Records : TruncatedPayloadHolds(Received(rec)))

\* a batch holds an item for an entry that the record did not carry, whose
\* overdue value is last_seen_timestamp - last_seen - interval, above 0
C27_Witness ==
    /\ last_call.op = "receive_atom"
    /\ \E i \in 1..Len(last_call.mvl) : \E entry \in Entries(expected_values_dict) :
        /\ Names(last_call.mvl[i], entry)
        /\ last_call.mvl[i].overdue_time = OverdueValue(entry, last_seen_timestamp)
        /\ last_call.mvl[i].overdue_time > 0

----------------------------------------------------------------------------
(* C28 *)

\* the path a record carries a key under
PathOf(rec, value) ==
    LET key == KeyOf(rec)
    IN  key.target_paths[CHOOSE i \in 1..Len(key.value_list) : key.value_list[i] = value]

\* what the claim says of one handled call that learns: a key of the record
\* that was not in the registry is in it afterwards with last_seen the record
\* time, default_interval, suppress_until 0 and the path of the value, and is
\* not in the batch of the call
LearnedHolds(rec, outcome) ==
    (outcome.result = "True" /\ outcome.learn_mode) =>
        \A value \in Observed(rec) \ Keys(expected_values_dict) :
            /\ DictGet(outcome.expected_values_dict, value) =
                   <<TimestampOf(rec), default_interval, 0, PathOf(rec, value)>>
            /\ value \notin Reported(outcome.mvl)

\* C28 (as claimed): learning a new channel. In every reachable state, a
\* handled record at time t that carries a key which is not in the registry,
\* learn_mode being true, inserts the entry [t, default_interval, 0, path of
\* the value], and the new entry is not reported in the batch of that record.
C28_LearnsNewKey ==
    \A rec \in Records : LearnedHolds(rec, Received(rec))

----------------------------------------------------------------------------
(* C29 *)

\* what the claim says of one call: no key leaves the registry; and if the
\* call is made with learn_mode false for a record that carries a key that is
\* not in the registry, then no key enters it, the call returns True,
\* last_seen_timestamp advances to the record time, the keys of the record that
\* are in the registry get the record time as last_seen, and every entry that
\* is overdue and outside its suppression window is in the batch
RegistrationOnlyHolds(rec, outcome) ==
    /\ Keys(expected_values_dict) \subseteq Keys(outcome.expected_values_dict)
    /\ (/\ ~outcome.learn_mode
        /\ Observed(rec) \ Keys(expected_values_dict) # {})
       => /\ Keys(outcome.expected_values_dict) = Keys(expected_values_dict)
          /\ outcome.result = "True"
          /\ outcome.last_seen_timestamp = Max(last_seen_timestamp, TimestampOf(rec))
          /\ \A value \in Matched(rec, expected_values_dict) :
              DictGet(outcome.expected_values_dict, value)[1] = TimestampOf(rec)
          /\ \A entry \in Entries(expected_values_dict) :
              (/\ Unsuppressed(entry, outcome.last_seen_timestamp)
               /\ Overdue(entry, outcome.last_seen_timestamp))
              => entry.value \in Reported(outcome.mvl)

\* C29 (as claimed): learning only governs registration. In every reachable
\* state, receive_atom removes no key of the registry whatever learn_mode is;
\* with learn_mode false, a record that carries a key that is not in the
\* registry inserts nothing, is still handled (returns True), still advances
\* last_seen_timestamp, and the keys that are in the registry are still
\* refreshed and still alerted when overdue.
C29_RegistrationOnly ==
    \A rec \in Records : RegistrationOnlyHolds(rec, Received(rec))

----------------------------------------------------------------------------
(* C30 *)

\* what the claim says of one call: made with learn_mode true, a cutoff set and
\* a record time above the cutoff, it leaves learn_mode false, whether or not
\* the record is handled; made with learn_mode false, it inserts no key
CutoverHolds(rec, outcome) ==
    /\ (/\ learn_mode
        /\ stop_learning_timestamp # None
        /\ TimestampOf(rec) > stop_learning_timestamp)
       => ~outcome.learn_mode
    /\ ~learn_mode =>
           Keys(outcome.expected_values_dict) \subseteq Keys(expected_values_dict)

\* no call sets learn_mode to true again
StaysOff == ~learn_mode => ~learn_mode'

\* C30 (as claimed): the learning cutover is irreversible. In every reachable
\* state, receive_atom sets learn_mode to false when learn_mode is true, a
\* cutoff is set and the record time is strictly greater than the cutoff, also
\* for a record that ends up unhandled; once learn_mode is false, no call of
\* receive_atom, do_timer, set_check_value, remove_check_value or
\* allowlist_event sets it to true again, and receive_atom inserts no new key.
C30_CutoverIrreversible ==
    /\ [](\A rec \in Records : CutoverHolds(rec, Received(rec)))
    /\ [][StaysOff]_vars

----------------------------------------------------------------------------
(* C31 *)

\* the call learns a key: it is handled with learn_mode true after lines
\* 101-104 and the record carries a key that is not in the registry
Learns(rec, outcome) ==
    /\ outcome.result = "True"
    /\ outcome.learn_mode
    /\ Observed(rec) \ Keys(expected_values_dict) # {}

\* what the claim says of one call: if it learns a key while
\* stop_learning_no_anomaly_time is configured, the cutoff becomes the record
\* time plus stop_learning_no_anomaly_time; if it learns none, the cutoff
\* stays, whatever the call reports
RearmedHolds(rec, outcome) ==
    IF Learns(rec, outcome) /\ stop_learning_no_anomaly_time # None
    THEN outcome.stop_learning_timestamp =
             TimestampOf(rec) + stop_learning_no_anomaly_time
    ELSE outcome.stop_learning_timestamp = stop_learning_timestamp

\* C31 (as claimed): re-arming the inactivity cutoff. In every reachable state
\* and for every record, a receive_atom call that learns a new key while
\* learn_mode is true and stop_learning_no_anomaly_time is configured sets the
\* learning cutoff to the record time of the call plus
\* stop_learning_no_anomaly_time, the record time being the clock the cutoff
\* is compared against; a call that learns no key, whether it reports overdue
\* keys or observes known ones, leaves the cutoff as it was.
C31_Rearmed ==
    \A rec \in Records : RearmedHolds(rec, Received(rec))

----------------------------------------------------------------------------
(* C32 *)

\* what the claim says of one handled call: every key of the record whose
\* entry has a suppress_until other than 0 has, after the call, the record
\* time as last_seen and suppress_until 0
ReturnHolds(rec, outcome) ==
    outcome.result = "True" =>
        \A value \in Matched(rec, expected_values_dict) :
            SuppressUntil(EntryOf(expected_values_dict, value)) # 0 =>
                LET entry == EntryOf(outcome.expected_values_dict, value)
                IN  /\ LastSeen(entry) = TimestampOf(rec)
                    /\ SuppressUntil(entry) = 0

\* C32 (as claimed): return to normal on observation. In every reachable
\* state, whenever a handled record at time t carries a key whose entry is in
\* the alerted state (suppress_until other than 0), the entry has last_seen = t
\* and suppress_until = 0 after receive_atom.
C32_ReturnToNormal ==
    \A rec \in Records : ReturnHolds(rec, Received(rec))

----------------------------------------------------------------------------
(* C33 *)

\* the keys that are in the alerted state in one registry and in the normal
\* state in another
BackToNormal(before, after) ==
    {value \in Keys(before) \cap Keys(after) :
        /\ SuppressUntil(EntryOf(before, value)) # 0
        /\ SuppressUntil(EntryOf(after, value)) = 0}

\* what the claim says of one receive_atom call: its timeout check takes no
\* key back to the normal state, and the keys the call takes back are keys of
\* the record, the record is handled, and its time has reached their
\* suppress_until
ObservedBackHolds(rec, outcome) ==
    /\ BackToNormal(outcome.learned.dict, outcome.checked.dict) = {}
    /\ \A value \in BackToNormal(expected_values_dict, outcome.expected_values_dict) :
        /\ outcome.result = "True"
        /\ value \in Observed(rec)
        /\ TimestampOf(rec) >= SuppressUntil(EntryOf(expected_values_dict, value))

\* what the claim says of the administrator's calls: set_check_value takes no
\* key but its own back to the normal state, remove_check_value takes none
OverrideBackHolds ==
    /\ \A value \in AdminValues, interval \in AdminIntervals, target_path \in AdminPaths :
        BackToNormal(expected_values_dict,
                     set_check_value(value, interval, target_path).expected_values_dict)
            \subseteq {value}
    /\ \A value \in AdminValues :
        BackToNormal(expected_values_dict,
                     remove_check_value(value).expected_values_dict) = {}

\* a step that takes a key back to the normal state is a call of receive_atom
\* or of set_check_value
BackByCall ==
    BackToNormal(expected_values_dict, expected_values_dict') # {} =>
        last_call'.op \in {"receive_atom", "set_check_value"}

----------------------------------------------------------------------------
(* C34 *)

\* the cutoff check of lines 101-104 applies to the record
PastCutoff(rec) ==
    /\ learn_mode
    /\ stop_learning_timestamp # None
    /\ rec[1].atom_time # None
    /\ stop_learning_timestamp < rec[1].atom_time

\* what the claim says of one call that returns False: last_seen_timestamp,
\* next_check_timestamp, the registry and the cutoff are as before, no scan
\* ran, nothing is reported and no event is sent; learn_mode is as before
\* unless the cutoff check applies, which sets it to False
UnhandledHolds(rec, outcome) ==
    outcome.result = "False" =>
        /\ outcome.last_seen_timestamp = last_seen_timestamp
        /\ outcome.next_check_timestamp = next_check_timestamp
        /\ outcome.expected_values_dict = expected_values_dict
        /\ outcome.stop_learning_timestamp = stop_learning_timestamp
        /\ ~outcome.scanned
        /\ outcome.mvl = <<>>
        /\ outcome.events = <<>>
        /\ outcome.learn_mode = (learn_mode /\ ~PastCutoff(rec))

\* C34: unhandled records do not drive the clock. In every reachable state, a
\* receive_atom call that returns False (the record has no channel key) leaves
\* last_seen_timestamp, next_check_timestamp and the whole registry unchanged
\* and sends no event, so it detects no overdue key; only learn_mode may
\* change, through the cutoff check.
C34_UnhandledNoClock ==
    [](\A rec \in Records : UnhandledHolds(rec, Received(rec)))

\* a call has returned False for a record later than every record handled so
\* far, with a key in the registry that a handled record of any later time
\* would report, and has switched learning off
C34_Witness ==
    /\ last_call.op = "receive_atom"
    /\ last_call.result = "False"
    /\ params.learn_mode /\ ~learn_mode
    /\ \E entry \in Entries(expected_values_dict) :
        /\ SuppressUntil(entry) = 0
        /\ DueTime(entry) <= last_seen_timestamp

----------------------------------------------------------------------------
(* C35 *)

\* the watermark is above 0 and below the record time
Behind(nc, lst) == 0 < nc /\ nc < lst

\* what the claim says of one receive_atom call: the watermark is raised only
\* by a scan that starts with the watermark at 0, and then to no more than
\* last_seen_timestamp + realert_interval; the learn loop, a scan that starts
\* with another watermark and the update loop do not raise it; a scan that
\* starts with a watermark above 0 leaves it above 0 and below
\* last_seen_timestamp; and with the watermark there, every handled record
\* scans and leaves it there
WatermarkHolds(rec, outcome) ==
    /\ outcome.next_check_timestamp > next_check_timestamp =>
           /\ outcome.scanned
           /\ next_check_timestamp = 0
           /\ outcome.learned.nc = 0
           /\ outcome.next_check_timestamp
                  <= outcome.last_seen_timestamp + realert_interval
    /\ outcome.learned.nc <= next_check_timestamp
    /\ outcome.learned.nc # 0 => outcome.checked.nc <= outcome.learned.nc
    /\ outcome.next_check_timestamp <= outcome.checked.nc
    /\ (outcome.scanned /\ outcome.learned.nc > 0) =>
           Behind(outcome.next_check_timestamp, outcome.last_seen_timestamp)
    /\ (Behind(next_check_timestamp, last_seen_timestamp) /\ outcome.result = "True") =>
           /\ outcome.scanned
           /\ Behind(outcome.next_check_timestamp, outcome.last_seen_timestamp)

\* what the claim says of one step of any operation: only a receive_atom call
\* that scans from the watermark 0 raises the watermark, and a watermark above
\* 0 and below last_seen_timestamp stays there until set_check_value is called
WatermarkStep ==
    /\ next_check_timestamp' > next_check_timestamp =>
           /\ last_call'.op = "receive_atom"
           /\ last_call'.scanned
           /\ next_check_timestamp = 0
    /\ Behind(next_check_timestamp, last_seen_timestamp) =>
           \/ Behind(next_check_timestamp', last_seen_timestamp')
           \/ last_call'.op = "set_check_value"

\* C35: watermark dynamics. next_check_timestamp increases in no operation
\* except in a scan that starts with next_check_timestamp = 0, where it is
\* first raised to last_seen_timestamp + realert_interval; so once a scan has
\* started with 0 < next_check_timestamp < last_seen_timestamp, every later
\* handled record scans as well, until set_check_value resets the watermark
\* to 0.
C35_WatermarkDynamics ==
    /\ [](\A rec \in Records : WatermarkHolds(rec, Received(rec)))
    /\ [][WatermarkStep]_vars

\* a scan has run that reported nothing and has left the watermark above 0 and
\* below last_seen_timestamp, with every entry of the registry in the normal
\* state and not yet due
C35_Witness ==
    /\ last_call.op = "receive_atom"
    /\ last_call.scanned
    /\ last_call.mvl = <<>>
    /\ Behind(next_check_timestamp, last_seen_timestamp)
    /\ expected_values_dict # <<>>
    /\ \A entry \in Entries(expected_values_dict) :
        SuppressUntil(entry) = 0 /\ DueTime(entry) > last_seen_timestamp

----------------------------------------------------------------------------
(* C36 *)

\* what the claim says of one call: if its scan left the loop at the break,
\* check_timeouts was called with the watermark at 0
EarlyEndHolds(outcome) ==
    outcome.stopped => outcome.scanned /\ outcome.learned.nc = 0

\* C36: early scan termination. Timestamps and intervals being 0 or more, in
\* every reachable state and for every record a scan stops before it has
\* visited all entries of the registry only if next_check_timestamp was 0 when
\* the scan started; a scan that starts with another watermark visits every
\* entry.
C36_EarlyEnd ==
    [](\A rec \in Records : EarlyEndHolds(Received(rec)))

\* a scan over a registry of two entries or more has stopped at the break
C36_Witness ==
    /\ last_call.op = "receive_atom"
    /\ last_call.scanned
    /\ last_call.stopped
    /\ Len(expected_values_dict) >= 2

----------------------------------------------------------------------------
(* C37 *)

\* what the claim says of one receive_atom call: a handled record leaves
\* last_seen_timestamp at the maximum of its value before and the time of the
\* record, any other record leaves it as it was; and no entry of the registry
\* has a last_seen above it afterwards
GlobalTimeHolds(rec, outcome) ==
    /\ outcome.last_seen_timestamp =
           IF outcome.result = "True"
           THEN Max(last_seen_timestamp, TimestampOf(rec))
           ELSE last_seen_timestamp
    /\ \A entry \in Entries(outcome.expected_values_dict) :
           LastSeen(entry) <= outcome.last_seen_timestamp

\* no entry of the registry has a last_seen above last_seen_timestamp, which
\* is 0 or more
GlobalTimeBounds ==
    /\ last_seen_timestamp >= 0
    /\ \A entry \in Entries(expected_values_dict) :
           LastSeen(entry) <= last_seen_timestamp

\* last_seen_timestamp does not decrease, and only receive_atom changes it
GlobalTimeStep ==
    /\ last_seen_timestamp' >= last_seen_timestamp
    /\ last_call'.op # "receive_atom" => last_seen_timestamp' = last_seen_timestamp

\* C37: global record time. On a detector started with an empty registry,
\* last_seen_timestamp never decreases; it starts at 0, every handled record
\* takes it to the maximum of its value and the record's timestamp and nothing
\* else changes it, so that after any sequence of operations it is the
\* maximum of 0 and the timestamps of all handled records; and every entry of
\* the registry has last_seen <= last_seen_timestamp.
C37_GlobalTime ==
    /\ [](\A rec \in Records : GlobalTimeHolds(rec, Received(rec)))
    /\ []GlobalTimeBounds
    /\ [][GlobalTimeStep]_vars

\* a handled record older than last_seen_timestamp has left every entry of
\* the registry with a last_seen below last_seen_timestamp
C37_Witness ==
    /\ last_call.op = "receive_atom"
    /\ last_call.result = "True"
    /\ expected_values_dict # <<>>
    /\ \A entry \in Entries(expected_values_dict) :
           LastSeen(entry) < last_seen_timestamp

---------------------------------------------------------------------------
(* C38: the lists of values of the EventTypeDetector *)

\* the lists of the checked variables of the event type at place e
CheckedLists(etd, e) ==
    {etd.values[e][i] : i \in {k \in 1..Len(etd.values[e]) : etd.check_variables[e][k]}}

\* after a call, no list of a checked variable of the current event type is
\* longer than max_num_vals, and the lists of the checked variables of one
\* event type are equally long
ValueListsHold(etd) ==
    /\ etd.answered \notin {"None", "False"} =>
           \A list \in CheckedLists(etd, etd.current_index + 1) :
               Len(list) <= etd.max_num_vals
    /\ \A e \in 1..Len(etd.values) :
           \A one, other \in CheckedLists(etd, e) : Len(one) = Len(other)

\* a call that appends to a list of max_num_vals values or more leaves the
\* last min_num_vals values of the longer list
CutToLast(before, after) ==
    \A e \in 1..Len(before.values) : \A i \in 1..Len(before.values[e]) :
        /\ after.answered = "True" /\ after.current_index = e - 1
        /\ after.check_variables[e][i]
        /\ Len(before.values[e][i]) >= before.max_num_vals
        => \E text \in {match.match_string : match \in UNION {EventMatches[p] : p \in DOMAIN EventMatches}} :
               after.values[e][i]
                   = LastValues(Append(before.values[e][i], text), before.min_num_vals)

\* C38: with save_values and min_num_vals <= max_num_vals, after every call
\* of receive_atom the list of every checked variable of the current event
\* type has at most max_num_vals values, an append that exceeds max_num_vals
\* cuts the checked variables of the event type to their last min_num_vals
\* values, and the checked variables of one event type always have lists of
\* equal length
C38_ValueListBound ==
    /\ [](event_type_detector.min_num_vals <= event_type_detector.max_num_vals
            => ValueListsHold(event_type_detector))
    /\ [][CutToLast(event_type_detector, event_type_detector')]_vars

---------------------------------------------------------------------------
(* C39: the life cycle of the socket of the ZmqEventHandler *)

\* the handler is initialised
Initialised(h) == h.zmq_imported

\* the event passes the filters of lines 54-59
FilteredIn(event) == event.source = "routed"

\* the call reaches a send_string that fails with a ZMQ error
SendFails(h, event) ==
    /\ FilteredIn(event) /\ event.text /\ event.send = "ZMQError"
    /\ Initialised(h) \/ event.bind = "bound"

\* a socket is created only for a filtered-in event that finds the handler not
\* initialised, and such an event creates one and binds it before it sends
CreatedHolds(h, event, after) ==
    /\ after.did.created <=> FilteredIn(event) /\ ~Initialised(h)
    /\ after.did.created =>
           /\ after.producer \notin {None, h.producer}
           /\ event.bind = "bound" => after.did.bound
           /\ after.did.sent # <<>> => after.did.bound
    /\ ~after.did.created => after.producer \in {None, h.producer}

\* a failed send returns False and leaves the handler not initialised
SendFailureHolds(h, event, after) ==
    SendFails(h, event) =>
        /\ after.did.result = "False"
        /\ after.producer = None
        /\ ~Initialised(after)

\* a filtered-out event returns True, sends nothing and creates no socket
FilteredOutHolds(h, event, after) ==
    ~FilteredIn(event) =>
        /\ after.did = Did("True", FALSE, FALSE, <<>>)
        /\ [after EXCEPT !.did = h.did] = h

\* C39: a socket is created and bound only for a filtered-in event that finds
\* the handler not initialised; a send that fails with a ZMQ error makes
\* receive_event return False and leaves producer = None and zmq_imported =
\* False, so that the next filtered-in event creates and binds a new socket
\* before it sends; a filtered-out event returns True without sending and
\* without creating a socket
C39_SocketLifeCycle ==
    \A event \in ZmqEvents :
        /\ CreatedHolds(zmq_event_handler, event,
                        receive_event(zmq_event_handler, event))
        /\ SendFailureHolds(zmq_event_handler, event,
                            receive_event(zmq_event_handler, event))
        /\ FilteredOutHolds(zmq_event_handler, event,
                            receive_event(zmq_event_handler, event))

====
